---- MODULE Spec2Model ----
(***************************************************************************)
(* Model of the Pro recording subsystem of mediamtx-pro:                   *)
(*   - recorder.Manager  (src/pro/recorder/manager.go)                     *)
(*   - recorder.Task     (src/unnamed/part_000, second file: task.go)      *)
(* The registry lock m.mutex, the task goroutines, the auto-record tick    *)
(* and the smart-recording gate are modelled step by step.                 *)
(***************************************************************************)
EXTENDS Integers, Sequences, FiniteSets, TLC

(***************************************************************************)
(* Bounds of the model.                                                    *)
(***************************************************************************)
\* Task objects of one path that exist at the same time (a slot is reused
\* once its task is done and no longer referenced by the registry).
MaxTasks == 2

\* The path names of the configuration.
Paths == {"cam1"}

Slots == 1..MaxTasks

\* Task.Start: t.maxRetries = 100
maxRetries == 100

VARIABLES
    pathReady,      \* [Paths -> BOOLEAN]  pathData.Ready as APIPathsGet reports it
    pathConfs,      \* m.PathConfs: [Paths -> [Record, DeviceType, RecordMinThreshold]]
    colorChecker,   \* m.ColorChecker != nil
    mutex,          \* m.mutex: "free" or "held" (by a call that waits for a task)
    tasks,          \* m.tasks: [Paths -> 0..MaxTasks], 0 = no entry
    taskObjs,       \* the Task objects: [Paths -> [Slots -> TaskRec]]
    stopCall,       \* [Paths -> {"idle","waitDone"}]  a StopRecording call in progress
    notReadyCall,   \* [Paths -> {"idle","pending","waitDone"}] an OnPathNotReady call
    captureStates,  \* captureStates: [Paths -> [pingCount, colorfulValue]]
    envFaults,      \* environment: streams and recorder files of the tasks can fail
    reqFormats,     \* environment: the videoFormat values the API's clients send
    gate,           \* history of the smart-recording gate, per path (see NoHist)
    resp,           \* what the step that led here returned, if it was a Manager call
    hcConfs,        \* Checker.PathConfs: [MonPaths -> path configuration or absent]
    monitors,       \* Checker.monitors: [MonPaths -> pathMonitor or none]
    hcFails,        \* per path: snapshot failures since the last successful snapshot
    hcLast,         \* what the latest step did, if it was a health check of a monitor
    clFs,           \* the entries of Cleaner.RecordPath: [EntryNames -> absent, dir or file]
    clConfs,        \* Cleaner.PathConfs: RecordClearDaysAgo of every path
    clToday,        \* timeNow(): the index of today in Calendar
    clLast,         \* what the latest Cleaner run did
    clMade,         \* a recording a task made: its path and its date folder
    wsImpl,         \* which websocketapi serves the subscribers: the Hub or the older one
    wsClients,      \* the clients map and, per client, its send channel and its writePump
    wsBc,           \* the goroutine that broadcasts: idle, or in its loop over the clients
    wsLast,         \* what the latest step did, if it was a send of the broadcast loop
    core,           \* the Core: its resources and its position in closeResources
    mp4,            \* the MP4 recorders: Close, the unit callback and the Stream's lock
    taskFiles,      \* file naming of the tasks of two paths (Task.Start)
    hub,            \* the Hub, its Run loop and its clients' pumps (websocket Hub)
    rv,             \* an RVideoClient: its endpoint lock, its done channel, a waiter and the callers of AddEndpoint
    launcher,       \* the snapshot launcher: its process, stop signal and monitor goroutines
    loops           \* the tick loops of the Health Checker and of the Record Cleaner

vars == <<pathReady, pathConfs, colorChecker, mutex, tasks, taskObjs,
          stopCall, notReadyCall, captureStates, envFaults, reqFormats, gate, resp,
          hcConfs, monitors, hcFails, hcLast, clFs, clConfs, clToday, clLast,
          clMade, wsImpl, wsClients, wsBc, wsLast, core, mp4, taskFiles, hub, rv, launcher, loops>>

\* The variables of the Record Manager and its tasks, and of the Health Checker.
recVars == <<pathReady, pathConfs, colorChecker, mutex, tasks, taskObjs,
             stopCall, notReadyCall, captureStates, envFaults, reqFormats, gate,
             resp>>

hcVars == <<hcConfs, monitors, hcFails, hcLast>>

clVars == <<clFs, clConfs, clToday, clLast, clMade>>

\* What a step of the Record Manager, of the Health Checker or of the Record
\* Cleaner leaves alone.
wsVars == <<wsImpl, wsClients, wsBc, wsLast>>

nonRecorder == <<hcVars, clVars, wsVars, core, loops, mp4, taskFiles, hub, rv, launcher>>

nonHealth == <<recVars, clVars, wsVars, core, loops, mp4, taskFiles, hub, rv, launcher>>

nonCleaner == <<recVars, hcVars, wsVars, core, loops, mp4, taskFiles, hub, rv, launcher>>

nonWs == <<recVars, hcVars, clVars, core, loops, mp4, taskFiles, hub, rv, launcher>>

nonCore == <<recVars, hcVars, clVars, wsVars, loops, mp4, taskFiles, hub, rv, launcher>>

nonLoops == <<recVars, hcVars, clVars, wsVars, core, mp4, taskFiles, hub, rv, launcher>>

nonLauncher == <<recVars, hcVars, clVars, wsVars, core, mp4, taskFiles, hub, rv, loops>>

nonRv == <<recVars, hcVars, clVars, wsVars, core, mp4, taskFiles, hub, loops, launcher>>

nonHub == <<recVars, hcVars, clVars, wsVars, core, mp4, taskFiles, loops, rv, launcher>>

nonFiles == <<recVars, hcVars, clVars, wsVars, core, mp4, loops, hub, rv, launcher>>

nonMp4 == <<recVars, hcVars, clVars, wsVars, core, loops, taskFiles, hub, rv, launcher>>

(***************************************************************************)
(* Task objects.  pc is the position of the goroutine Task.run:            *)
(*   "free"      no Task object in this slot                               *)
(*   "loop"      top of the for loop (timeout check, stop check)           *)
(*   "attempt"   both checks passed, startRecorder being called            *)
(*   "started"   startRecorder succeeded, remainingTime not yet computed   *)
(*   "running"   in the select on timeoutTimer / recorderErrors / terminate*)
(*   "waitRetry" in the select on time.After(retryInterval) / terminate    *)
(*   "complete"  about to call Parent.OnTaskComplete (needs m.mutex)       *)
(*   "exit"      OnTaskComplete returned, deferred close(done) not yet run *)
(*   "done"      done is closed                                            *)
(* clk is where time.Now() stands against absoluteEndTime:                 *)
(*   "before" (now < end), "at" (now = end), "after" (now > end).          *)
(***************************************************************************)
\* The zero StartResponse.
NoBody ==
    [Existed |-> FALSE, Success |-> FALSE, ID |-> << >>, Name |-> "",
     FileName |-> << >>, FilePath |-> << >>, FullPath |-> << >>,
     FileURL |-> << >>, TaskEndTime |-> << >>]

\* created records the StartResponse returned when the task was created by
\* StartRecording (NoBody for a task the tick created).
NoTaskRec ==
    [pc |-> "free", Format |-> "", IsAutoRecord |-> FALSE, retryCount |-> 0,
     stopRequested |-> FALSE, terminate |-> FALSE, recorder |-> FALSE,
     clk |-> "before", created |-> NoBody]

Live(t) == t.pc \notin {"free", "done"}

AtOrAfterEnd(t) == t.clk \in {"at", "after"}

\* Task.closeRecorders: closes and forgets mp4Recorder / recorder.
closeRecorders(t) == [t EXCEPT !.recorder = FALSE]

\* The return of Task.run: the deferred close(t.done) runs and the locals of
\* run (absoluteEndTime) are gone.
runReturns(t) == [t EXCEPT !.pc = "done", !.clk = "before"]

\* Task.Start, when os.MkdirAll succeeds: the fields it sets and go t.run().
TaskStart(auto, format) ==
    [pc |-> "loop", Format |-> format, IsAutoRecord |-> auto, retryCount |-> 0,
     stopRequested |-> FALSE, terminate |-> FALSE, recorder |-> FALSE,
     clk |-> "before", created |-> NoBody]

\* Task.Stop up to its wait on done: t.stopRequested = true; close(t.terminate).
TaskStop(t) == [t EXCEPT !.stopRequested = TRUE, !.terminate = TRUE]

\* The values a read of t.stopRequested in Task.run can give.  Stop writes the
\* field without synchronisation, so once it is written the goroutine may see
\* the new value or still the old one.
ReadStopRequested(t) == IF t.stopRequested THEN {TRUE, FALSE} ELSE {FALSE}

FreeSlots(p) == {s \in Slots : taskObjs[p][s].pc = "free"}

\* The slot a new Task object takes.
MinFree(p) == CHOOSE x \in FreeSlots(p) : \A y \in FreeSlots(p) : x <= y

\* A Task object that is done and that the registry no longer references is
\* garbage: its slot becomes free.
Collect(objs, reg) ==
    [s \in Slots |-> IF objs[s].pc = "done" /\ reg # s THEN NoTaskRec ELSE objs[s]]

(***************************************************************************)
(* Initial state: Manager.Initialize has run, no task, the lock is free.   *)
(***************************************************************************)
PlainConf ==
    [Record |-> TRUE, DeviceType |-> "", Source |-> "publisher",
     RecordMinThreshold |-> 0, AutoRecordTaskOutDuration |-> 0]

\* captureState as getOrCreateCaptureState creates it.  An absent entry of
\* the map and a zero entry behave alike (reset of an absent entry is a no-op).
NoCapture == [pingCount |-> 0, colorfulValue |-> 0]

\* The recorded history of the gate of one path:
\*   win     the observations counted since captureState was last reset
\*   admit   the gate admitted the path on the latest tick that consulted it
\*   n, sum, sum3   at that admission: how many observations had been counted
\*           since the previous reset (this tick's included), their sum, and
\*           the sum of the last three of them
\*   probed  the gate asked the device for its input status on that tick
\*   script  k when the gate was consulted k times so far, each time on an
\*           available device, counting the k first observations of Scenario,
\*           with no failed Task.Start; -1 once that is no longer so
\*   starts  the values of script at which the tick started a task
NoHist ==
    [win |-> << >>, admit |-> FALSE, n |-> 0, sum |-> 0, sum3 |-> 0,
     probed |-> FALSE, script |-> 0, starts |-> {}]

(***************************************************************************)
(* The Health Checker: its paths, configurations and monitors.             *)
(***************************************************************************)
MonPaths == {"cap1", "cap2"}

\* const failureThreshold = 6
failureThreshold == 6

\* The snapshot failures in a row a monitor is followed through.
MaxFails == 13

DeviceTypeNetworkCapture == "network_capture"

\* The sources a path is configured with, and u.Host of base.ParseURL(source):
\* "" when the source does not parse or has no host.
HcSources == {"rtsp://devA/live", "rtsp://devB/live", "publisher"}

HostOf(source) ==
    IF source = "rtsp://devA/live" THEN "devA"
    ELSE IF source = "rtsp://devB/live" THEN "devB"
    ELSE ""

\* A path of the configuration map, or its absence from the map.
AbsentConf == [present |-> FALSE, DeviceType |-> "", Source |-> ""]

HcConfSet ==
    {AbsentConf}
    \cup [present : {TRUE}, DeviceType : {DeviceTypeNetworkCapture, ""},
          Source : HcSources]

NoMonitor == [on |-> FALSE, deviceIP |-> "", failureCount |-> 0]

\* No health check on the latest step.
NoCheck == [path |-> "", dev |-> "none", snapshot |-> "none", reboot |-> "none"]

\* A Health Checker without configuration.
HealthAtRest ==
    /\ hcConfs = [p \in MonPaths |-> AbsentConf]
    /\ monitors = [p \in MonPaths |-> NoMonitor]
    /\ hcFails = [p \in MonPaths |-> 0]
    /\ hcLast = NoCheck

(***************************************************************************)
(* The Record Cleaner: the record root, dates and folder names.            *)
(***************************************************************************)
\* The number of days of a month of the Gregorian calendar.
DaysIn(y, m) ==
    IF m = 2
    THEN IF y % 4 = 0 /\ (y % 100 # 0 \/ y % 400 = 0) THEN 29 ELSE 28
    ELSE IF m \in {4, 6, 9, 11} THEN 30 ELSE 31

\* The days of a month, in order.
MonthDays(y, m) == [d \in 1..DaysIn(y, m) |-> <<y, m, d>>]

\* The days of the months from one month to a later one, both included.
RECURSIVE MonthsFromTo(_, _, _, _)
MonthsFromTo(y, m, toY, toM) ==
    IF y = toY /\ m = toM THEN MonthDays(y, m)
    ELSE MonthDays(y, m) \o
         (IF m < 12 THEN MonthsFromTo(y, m + 1, toY, toM)
                    ELSE MonthsFromTo(y + 1, 1, toY, toM))

\* Consecutive days <<year, month, day>> across a year's end; time.AddDate
\* moves along them.
Calendar == MonthsFromTo(2023, 12, 2024, 7)

\* The index of a day in Calendar.
DayIndex(ymd) == CHOOSE i \in 1..Len(Calendar) : Calendar[i] = ymd

\* The days tasks record on.
RecordingDays == DayIndex(<<2024, 6, 21>>)..DayIndex(<<2024, 6, 23>>)

\* The days the record root can hold a folder of: seven across the end of
\* 2023, 2024-06-01 and 2024-07-15, and the days tasks record on.
FolderDays ==
    DayIndex(<<2023, 12, 28>>)..DayIndex(<<2024, 1, 3>>)
        \cup {DayIndex(<<2024, 6, 1>>), DayIndex(<<2024, 7, 15>>)}
        \cup RecordingDays

\* The byte of a decimal digit.
DigitByte(d) == 48 + d

\* A number as n decimal digits, zero-padded, most significant first.
RECURSIVE Digits(_, _)
Digits(v, n) ==
    IF n = 0 THEN << >> ELSE Append(Digits(v \div 10, n - 1), DigitByte(v % 10))

\* time.Format("20060102") of a day, as bytes.
FormatDate(ymd) == Digits(ymd[1], 4) \o Digits(ymd[2], 2) \o Digits(ymd[3], 2)

\* Names in the record root that are no date folders: "notes" and "2023123x".
OtherNames == { <<110, 111, 116, 101, 115>>,
                <<50, 48, 50, 51, 49, 50, 51, 120>> }

DateNames == {FormatDate(Calendar[i]) : i \in FolderDays}

EntryNames == DateNames \cup OtherNames

\* The paths of the Cleaner's configuration and their record_clear_days_ago.
ClPaths == {"cam1", "cam2"}

ClearDaysAgoSet == {0, 1, 2}

\* No Cleaner run yet.
NoRun == [ran |-> FALSE, k |-> 0, listed |-> FALSE, removed |-> {}, failed |-> {}]

\* No recording is followed.
NoRecording == [made |-> FALSE, path |-> "", dateDir |-> << >>]

\* A Cleaner that is not configured, over an empty record root.
CleanerAtRest ==
    /\ clMade = NoRecording
    /\ clFs = [n \in EntryNames |-> "absent"]
    /\ clConfs = [p \in ClPaths |-> 0]
    /\ clToday = Len(Calendar)
    /\ clLast = NoRun

(***************************************************************************)
(* The WebSocket fan-out: clients, send channels, messages.                *)
(***************************************************************************)
WsIds == {"w1", "w2"}

WsMsgs == {"m1", "m2"}

\* The capacity of Client.send of the Hub (256 in the source), cut down.
MaxSendBuffer == 2

sendBufferSize == MaxSendBuffer

maxClients == 1000

\* make(chan interface{}, sendBufferSize) of the Hub's ServeWS and
\* make(chan interface{}) of the older WebSocketHandler.
SendCap(impl) == IF impl = "hub" THEN sendBufferSize ELSE 0

\* A client that is not connected.
NoClient == [reg |-> FALSE, send |-> << >>, pump |-> "exit", cur |-> ""]

\* The broadcaster outside Broadcast.
BcIdle == [pc |-> "idle", msg |-> "", todo |-> {}]

NoSend == [id |-> "", msg |-> "", room |-> FALSE, outcome |-> "none"]

\* A fan-out nobody is connected to.
WsAtRest ==
    /\ wsImpl = "hub"
    /\ wsClients = [c \in WsIds |-> NoClient]
    /\ wsBc = BcIdle
    /\ wsLast = NoSend

(***************************************************************************)
(* The Core and its resources.                                             *)
(***************************************************************************)
\* The order with the Record Cleaner closed before the Path Manager.
CloseOrderCleanerEarly ==
    <<"confWatcher", "healthChecker", "api", "webRTCServer", "recordManager",
      "rtmpsServer", "rtmpServer", "rtspsServer", "rtspServer", "recordCleaner",
      "pathManager", "metrics", "authManager", "externalCmdPool", "logger">>

\* The resources closeResources deals with, in the order of its statements.
CloseOrder ==
    <<"confWatcher", "healthChecker", "api", "webRTCServer", "recordManager",
      "rtmpsServer", "rtmpServer", "rtspsServer", "rtspServer", "pathManager",
      "recordCleaner", "metrics", "authManager", "externalCmdPool", "logger">>

Resources == {CloseOrder[i] : i \in 1..Len(CloseOrder)}

\* The resources a configuration can leave out.
OptionalResources == {"healthChecker", "api", "recordManager", "recordCleaner"}

\* The parts of the configuration whose change closeResources looks at.
ConfParts ==
    {"logger", "auth", "metrics", "cleaner", "rtsp", "rtmp", "webrtc", "api", "paths"}

\* A Core that runs with res and is not closing anything.
CoreRunning(res) ==
    [pc |-> 0, open |-> res, all |-> FALSE, changed |-> {}, calledByAPI |-> FALSE,
     closed |-> << >>, reloaded |-> {}]

CoreAtRest == core = CoreRunning(Resources)

(***************************************************************************)
(* The tick loops: pathMonitor.run and Cleaner.run.                        *)
(***************************************************************************)
LoopIds == {"monitor", "cleaner"}

\* How far the works begun and the ticks fired after a cancellation are
\* counted.
MaxFurther == 2

\* A loop that waits in its select; its ticker has not fired, its context is
\* not cancelled.
LoopWaiting ==
    [pc |-> "select", tick |-> FALSE, cancelled |-> FALSE, closer |-> "none",
     pendingAtCancel |-> FALSE, firedAfter |-> 0, after |-> 0]

LoopsAtRest == loops = [l \in LoopIds |-> LoopWaiting]

\* The MP4 recorders, each on a Stream of its own.
Recs == {"rec1", "rec2"}

\* An MP4Recorder right after Initialize: initialized, its reader added to
\* the Stream, run waiting in its select, nobody in Close, no unit being
\* delivered.  mutex is r.mutex; streamLock is what the Stream holds while
\* it delivers a unit; cb is the position of the unit callback.
Mp4Initialized ==
    [initialized |-> TRUE, reader |-> TRUE, mutex |-> "free", run |-> "select",
     terminate |-> FALSE, close |-> "idle", streamLock |-> "free", cb |-> "none"]

Mp4AtRest == mp4 = [r \in Recs |-> Mp4Initialized]

\* The paths whose tasks' file names are followed, the instants <<day, minute>>
\* at which a task can start, and the number of uuids drawn.
NamePaths == {"cam1", "cam2"}
NameInstants == <<(<<"20240101", "1000">>), (<<"20240101", "1001">>), (<<"20240102", "1000">>)>>
MaxIds == 3
UuidPrefixes == <<"0a1b2c3d", "1b2c3d4e", "2c3d4e5f", "3d4e5f6a", "4e5f6a7b">>

\* A path without a task, and the state in which no path has one.
NoFile == [active |-> FALSE, FileName |-> <<>>, FullPath |-> <<>>]
FilesAtRest ==
    taskFiles = [at |-> 1, ids |-> 0, existed |-> FALSE,
                 tasks |-> [p \in NamePaths |-> NoFile]]

\* The number of processes the launcher starts.  A process, the stop signal
\* made after its launch and the monitor goroutine started for it bear the
\* same number; 0 is nil.
MaxProcs == 4
ProcIds == 1..MaxProcs

NoGoroutine == [pc |-> "none", cmd |-> 0, stopSignal |-> 0]

\* NewVideoSnapshotServerLauncher: no process, no stop signal, no monitor.
LauncherAtRest ==
    launcher = [cmd |-> 0, stopSignal |-> 0, procs |-> 0, closed |-> {}, exited |-> {},
                relaunches |-> [n \in ProcIds |-> 0],
                mon |-> [n \in ProcIds |-> NoGoroutine]]

\* The goroutines that call AddEndpoint, and the number of waits followed.
Adders == {"a1", "a2"}
MaxWaits == 3

\* done is 0 for nil, or the number of the wait that made the channel.
NoAdder == [pc |-> "idle", ch |-> 0]

\* NewRVideoClient: no endpoint, done nil, nobody waiting.
RvAtRest ==
    rv = [done |-> 0, waits |-> 0, lock |-> "free", endpoints |-> 0,
          waiter |-> "idle", adders |-> [a \in Adders |-> NoAdder]]

\* The clients ServeWS creates, each with its own uuid.
HubClients == {"k1", "k2"}

\* A client ServeWS has not created yet.
HubNoClient ==
    [serve |-> "none", inMap |-> FALSE, queued |-> 0, closes |-> 0,
     panicked |-> FALSE, cancelled |-> FALSE, conn |-> "none",
     rp |-> "none", wp |-> "none"]

HubBcIdle == [pc |-> "idle", todo |-> {}]

\* NewHub and `go hub.Run()`: Run waits in its select, nobody is connected.
HubAtRest ==
    hub = [ctx |-> "live", run |-> "select", close |-> "idle", bc |-> HubBcIdle,
           clients |-> [c \in HubClients |-> HubNoClient]]

\* No Manager call returned on the latest step.
NoResp == [op |-> "none"]

\* A Record Manager right after Initialize.
ManagerInit ==
    /\ resp = NoResp
    /\ mutex = "free"
    /\ tasks = [p \in Paths |-> 0]
    /\ taskObjs = [p \in Paths |-> [s \in Slots |-> NoTaskRec]]
    /\ stopCall = [p \in Paths |-> "idle"]
    /\ notReadyCall = [p \in Paths |-> "idle"]
    /\ captureStates = [p \in Paths |-> NoCapture]
    /\ gate = [p \in Paths |-> NoHist]

InitRec ==
    HealthAtRest /\ CleanerAtRest /\ WsAtRest /\ CoreAtRest /\ LoopsAtRest /\ LauncherAtRest /\ RvAtRest /\ HubAtRest /\ FilesAtRest /\ Mp4AtRest /\ ManagerInit

\* A Record Manager that stays idle.
RecorderAtRest ==
    /\ ManagerInit
    /\ pathReady = [p \in Paths |-> FALSE]
    /\ pathConfs = [p \in Paths |-> PlainConf]
    /\ colorChecker = FALSE
    /\ envFaults = FALSE
    /\ reqFormats = {"mp4"}

\* A manager without color checker over plain record=true paths, in an
\* environment whose streams and files can fail.
Init ==
    /\ InitRec
    /\ pathReady \in [Paths -> BOOLEAN]
    /\ pathConfs = [p \in Paths |-> PlainConf]
    /\ colorChecker = FALSE
    /\ envFaults = TRUE
    /\ reqFormats = {"mp4"}

(***************************************************************************)
(* Task.run, one action per blocking point or externally visible read.     *)
(***************************************************************************)
\* taskObjs with the object in slot s of path p replaced by n; reg is the
\* registry entry of p after the step.
PutTask(p, s, n, reg) ==
    [taskObjs EXCEPT ![p] = Collect([@ EXCEPT ![s] = n], reg)]

\* run, lines 187-202: the timeout check and the non-blocking stop check.
LoopStep(t) ==
    IF t.clk = "after" THEN [t EXCEPT !.pc = "complete"]
    ELSE IF t.terminate THEN runReturns(closeRecorders(t))
    ELSE [t EXCEPT !.pc = "attempt"]

\* run, lines 206-234 (and 263-286): after a failure, stop if a stop was
\* requested, give up when the retries are used up, else count and wait.
AfterFailureAlwaysRetries(t, stopSeen) ==
    IF stopSeen THEN runReturns(closeRecorders(t))
    ELSE [t EXCEPT !.retryCount = @ + 1, !.pc = "waitRetry"]

AfterFailure(t, stopSeen) ==
    IF stopSeen THEN runReturns(closeRecorders(t))
    ELSE IF t.retryCount >= maxRetries THEN [t EXCEPT !.pc = "complete"]
    ELSE [t EXCEPT !.retryCount = @ + 1, !.pc = "waitRetry"]

\* run, line 205: startRecorder succeeds only on a ready path; on a ready one
\* it fails when the environment does (no stream, a failed cast, a failed
\* MP4Recorder.Initialize).
AttemptOutcomes(t, ready, faults) ==
    (IF ready THEN {[t EXCEPT !.recorder = TRUE, !.pc = "started"]} ELSE {})
    \cup (IF ~ready \/ faults
          THEN {AfterFailure(t, sr) : sr \in ReadStopRequested(t)}
          ELSE {})

\* run, lines 237-245: remainingTime <= 0 ends the task at once.
StartedStep(t) ==
    IF AtOrAfterEnd(t) THEN [closeRecorders(t) EXCEPT !.pc = "complete"]
    ELSE [t EXCEPT !.pc = "running"]

\* run, lines 247-294: the select of a running task.
RunningTerminateLeaks(t) == runReturns(t)

RunningTimeoutLeavesOpen(t) == [t EXCEPT !.pc = "complete"]

RunningTimeout(t) == [closeRecorders(t) EXCEPT !.pc = "complete"]

RunningError(t, stopSeen) == AfterFailure(closeRecorders(t), stopSeen)

RunningTerminate(t) == runReturns(closeRecorders(t))

\* startRecorder: only the MP4Recorder of an mp4 task is given
\* t.recorderErrors (ErrorCh); the recorder of any other format is not.
HasErrorCh(t) == t.Format = "mp4"

\* A reader error reaches recorderErrors when the stream fails and the
\* recorder has the channel.
RunningOutcomes(t, faults) ==
    (IF AtOrAfterEnd(t) THEN {RunningTimeout(t)} ELSE {})
    \cup (IF faults /\ HasErrorCh(t)
          THEN {RunningError(t, sr) : sr \in ReadStopRequested(t)} ELSE {})
    \cup (IF t.terminate THEN {RunningTerminate(t)} ELSE {})

\* run, lines 227-233 and 280-286: the retry wait.
WaitRetryOutcomes(t) ==
    {[t EXCEPT !.pc = "loop"]}
    \cup (IF t.terminate THEN {runReturns(t)} ELSE {})

\* The task after its call of OnTaskComplete has returned: run returns next
\* and reads neither retryCount nor absoluteEndTime again.
Completed(t) == [t EXCEPT !.pc = "exit", !.clk = "before", !.retryCount = 0]

OnTaskCompleteKeeps(reg, p) == reg

\* Manager.OnTaskComplete: delete the entry of pathName if there is one.
OnTaskComplete(reg, p) == [reg EXCEPT ![p] = 0]

TaskLoop(p, s) ==
    /\ UNCHANGED nonRecorder
    /\ resp' = NoResp
    /\ taskObjs[p][s].pc = "loop"
    /\ taskObjs' = PutTask(p, s, LoopStep(taskObjs[p][s]), tasks[p])
    /\ UNCHANGED <<pathReady, pathConfs, colorChecker, reqFormats, mutex, tasks, stopCall,
                   notReadyCall, captureStates, envFaults, gate>>

TaskAttempt(p, s) ==
    /\ UNCHANGED nonRecorder
    /\ resp' = NoResp
    /\ taskObjs[p][s].pc = "attempt"
    /\ \E n \in AttemptOutcomes(taskObjs[p][s], pathReady[p], envFaults) :
          taskObjs' = PutTask(p, s, n, tasks[p])
    /\ UNCHANGED <<pathReady, pathConfs, colorChecker, reqFormats, mutex, tasks, stopCall,
                   notReadyCall, captureStates, envFaults, gate>>

TaskStarted(p, s) ==
    /\ UNCHANGED nonRecorder
    /\ resp' = NoResp
    /\ taskObjs[p][s].pc = "started"
    /\ taskObjs' = PutTask(p, s, StartedStep(taskObjs[p][s]), tasks[p])
    /\ UNCHANGED <<pathReady, pathConfs, colorChecker, reqFormats, mutex, tasks, stopCall,
                   notReadyCall, captureStates, envFaults, gate>>

TaskRunning(p, s) ==
    /\ UNCHANGED nonRecorder
    /\ resp' = NoResp
    /\ taskObjs[p][s].pc = "running"
    /\ \E n \in RunningOutcomes(taskObjs[p][s], envFaults) :
          taskObjs' = PutTask(p, s, n, tasks[p])
    /\ UNCHANGED <<pathReady, pathConfs, colorChecker, reqFormats, mutex, tasks, stopCall,
                   notReadyCall, captureStates, envFaults, gate>>

TaskWaitRetry(p, s) ==
    /\ UNCHANGED nonRecorder
    /\ resp' = NoResp
    /\ taskObjs[p][s].pc = "waitRetry"
    /\ \E n \in WaitRetryOutcomes(taskObjs[p][s]) :
          taskObjs' = PutTask(p, s, n, tasks[p])
    /\ UNCHANGED <<pathReady, pathConfs, colorChecker, reqFormats, mutex, tasks, stopCall,
                   notReadyCall, captureStates, envFaults, gate>>

\* The call t.Parent.OnTaskComplete(t.PathName): it takes m.mutex.
TaskComplete(p, s) ==
    /\ UNCHANGED nonRecorder
    /\ resp' = NoResp
    /\ taskObjs[p][s].pc = "complete"
    /\ mutex = "free"
    /\ tasks' = OnTaskComplete(tasks, p)
    /\ taskObjs' = PutTask(p, s, Completed(taskObjs[p][s]), tasks'[p])
    /\ UNCHANGED <<pathReady, pathConfs, colorChecker, reqFormats, mutex, stopCall,
                   notReadyCall, captureStates, envFaults, gate>>

\* run returns after OnTaskComplete: the deferred close(t.done).
TaskExit(p, s) ==
    /\ UNCHANGED nonRecorder
    /\ resp' = NoResp
    /\ taskObjs[p][s].pc = "exit"
    /\ taskObjs' = PutTask(p, s, runReturns(taskObjs[p][s]), tasks[p])
    /\ UNCHANGED <<pathReady, pathConfs, colorChecker, reqFormats, mutex, tasks, stopCall,
                   notReadyCall, captureStates, envFaults, gate>>

\* Time passes: time.Now() reaches, then passes, absoluteEndTime.
DeadlinePasses(p, s) ==
    /\ UNCHANGED nonRecorder
    /\ resp' = NoResp
    /\ taskObjs[p][s].pc \in {"loop", "attempt", "started", "running", "waitRetry"}
    /\ taskObjs[p][s].clk # "after"
    /\ taskObjs' = PutTask(p, s,
          [taskObjs[p][s] EXCEPT !.clk = IF @ = "before" THEN "at" ELSE "after"],
          tasks[p])
    /\ UNCHANGED <<pathReady, pathConfs, colorChecker, reqFormats, mutex, tasks, stopCall,
                   notReadyCall, captureStates, envFaults, gate>>

(***************************************************************************)
(* The Path Manager, as far as the Manager sees it: APIPathsGet reports    *)
(* Ready, and a path that stops being ready makes the Path Manager call    *)
(* OnPathNotReady and wait for its return before the path changes again.   *)
(***************************************************************************)
SetReady(p) ==
    /\ UNCHANGED nonRecorder
    /\ resp' = NoResp
    /\ ~pathReady[p]
    /\ notReadyCall[p] = "idle"
    /\ pathReady' = [pathReady EXCEPT ![p] = TRUE]
    /\ UNCHANGED <<pathConfs, colorChecker, reqFormats, mutex, tasks, taskObjs, stopCall,
                   notReadyCall, captureStates, envFaults, gate>>

SetNotReady(p) ==
    /\ UNCHANGED nonRecorder
    /\ resp' = NoResp
    /\ pathReady[p]
    /\ notReadyCall[p] = "idle"
    /\ pathReady' = [pathReady EXCEPT ![p] = FALSE]
    /\ notReadyCall' = [notReadyCall EXCEPT ![p] = "pending"]
    /\ UNCHANGED <<pathConfs, colorChecker, reqFormats, mutex, tasks, taskObjs, stopCall,
                   captureStates, envFaults, gate>>

(***************************************************************************)
(* Manager.StartRecording.  It runs under m.mutex and never waits.         *)
(***************************************************************************)
\* What APIPathsGet can answer for path p: a ready path is known; a path that
\* is not ready may be unknown to the Path Manager.
APIPathsGetAnswers(p) ==
    IF pathReady[p] THEN {"ready"} ELSE {"notFound", "notReady"}

\* The error StartRecording returns ("" for none), given the answer of
\* APIPathsGet and whether os.MkdirAll in Task.Start succeeds.
StartRecordingResultUnchecked(p, get, mkdirOk) ==
    IF get = "notFound" THEN "notFound"
    ELSE IF get = "notReady" THEN "notPublishing"
    ELSE IF ~mkdirOk THEN "startFailed"
    ELSE "created"

StartRecordingResultPathFirst(p, get, mkdirOk) ==
    IF get = "notFound" THEN "notFound"
    ELSE IF get = "notReady" THEN "notPublishing"
    ELSE IF tasks[p] # 0 THEN "existed"
    ELSE IF ~mkdirOk THEN "startFailed"
    ELSE "created"

StartRecordingResultNoReadyCheck(p, get, mkdirOk) ==
    IF tasks[p] # 0 THEN "existed"
    ELSE IF get = "notFound" THEN "notFound"
    ELSE IF ~mkdirOk THEN "startFailed"
    ELSE "created"

StartRecordingResult(p, get, mkdirOk) ==
    IF tasks[p] # 0 THEN "existed"
    ELSE IF get = "notFound" THEN "notFound"
    ELSE IF get = "notReady" THEN "notPublishing"
    ELSE IF ~mkdirOk THEN "startFailed"
    ELSE "created"

\* m.baseURL, and the URL StartRecording builds from it.
baseURL == <<"http://api">>

fileURL(relativePath) == baseURL \o <<"/res">> \o relativePath

\* The fields Task.Start and the Task literal give the task in slot s of path
\* p, as far as the responses copy them.  Task.FileURL is assigned nowhere.
TaskInfo(p, s) ==
    [ID |-> <<"uuid", s>>, FileName |-> <<"file", s>>,
     RelativePath |-> <<"/", "day", "/", "file", s>>,
     FullPath |-> <<"RecordPath", "/", "day", "/", "file", s>>,
     FileURL |-> << >>,
     EndTime |-> <<"StartTime", s, "+Timeout">>]

\* The StartResponse for a task that already exists.
StartResponseExisting(p, s) ==
    LET t == TaskInfo(p, s)
    IN  [Existed |-> TRUE, Success |-> TRUE, ID |-> t.ID, Name |-> p,
         FileName |-> t.FileName, FilePath |-> t.RelativePath,
         FullPath |-> t.FullPath, FileURL |-> t.FileURL,
         TaskEndTime |-> t.EndTime]

\* The StartResponse for the task the call created.
StartResponseCreated(p, s) ==
    LET t == TaskInfo(p, s)
    IN  [Existed |-> FALSE, Success |-> TRUE, ID |-> t.ID, Name |-> p,
         FileName |-> t.FileName, FilePath |-> t.RelativePath,
         FullPath |-> t.FullPath, FileURL |-> fileURL(t.RelativePath),
         TaskEndTime |-> t.EndTime]

\* The Task literal of StartRecording: format and timeout (minutes).
VideoFormats == {"mp4", "ts"}

TaskOutMinutesSet == {0, 1}

StartTaskLiteralAsGiven(format, minutes) ==
    [made |-> TRUE, Format |-> format, IsAutoRecord |-> FALSE,
     Timeout |-> minutes]

StartTaskLiteral(format, minutes) ==
    [made |-> TRUE, Format |-> format, IsAutoRecord |-> FALSE,
     Timeout |-> IF minutes <= 0 THEN 30 ELSE minutes]

\* The instants (minutes of the wall clock) time.Now() gives Task.Start.
StartInstants == {0, 45}

\* Task.Start: t.StartTime = time.Now(); t.EndTime = t.StartTime.Add(t.Timeout).
TaskStartTimes(now, timeout) == [StartTime |-> now, EndTime |-> now + timeout]

NoTimes == [StartTime |-> 0, EndTime |-> 0]

NoLiteral == [made |-> FALSE, Format |-> "", IsAutoRecord |-> FALSE, Timeout |-> 0]

\* APIV2.onRecordStart and onRecordStop: the status for the Manager's answer.
onRecordStartStatus(err) == IF err = "" THEN 200 ELSE 500

onRecordStopStatus(err) == IF err = "" THEN 200 ELSE 500

\* The inputs a StartRecording call for path p reads: none when the task
\* exists, the parameters and os.MkdirAll only when the path is ready.
StartInputs(p) ==
    {in \in [get : APIPathsGetAnswers(p), mkdirOk : BOOLEAN,
              format : reqFormats, minutes : TaskOutMinutesSet,
              now : StartInstants] :
        /\ (tasks[p] # 0 \/ in.get # "ready") =>
               in.mkdirOk /\ in.format = "mp4" /\ in.minutes = 0 /\ in.now = 0
        /\ ~in.mkdirOk => in.format = "mp4" /\ in.minutes = 0 /\ in.now = 0}

\* POST /record/start with a valid body, through Manager.StartRecording.
StartRecording(p) ==
    /\ UNCHANGED nonRecorder
    /\ mutex = "free"
    /\ \E in \in StartInputs(p) :
          LET r == StartRecordingResult(p, in.get, in.mkdirOk)
              format == in.format
              minutes == in.minutes
          IN  \/ /\ r = "created"
                 /\ FreeSlots(p) # {}
                 /\ tasks' = [tasks EXCEPT ![p] = MinFree(p)]
                 /\ taskObjs' = PutTask(p, MinFree(p),
                        [TaskStart(FALSE, format) EXCEPT
                            !.created = StartResponseCreated(p, MinFree(p))],
                        MinFree(p))
                 /\ resp' = [op |-> "start", name |-> p, err |-> "",
                             get |-> in.get,
                             http |-> onRecordStartStatus(""),
                             body |-> StartResponseCreated(p, MinFree(p)),
                             task |-> StartTaskLiteral(format, minutes),
                             minutes |-> minutes,
                             times |-> TaskStartTimes(in.now,
                                 StartTaskLiteral(format, minutes).Timeout)]
              \/ /\ r = "existed"
                 /\ UNCHANGED <<tasks, taskObjs>>
                 /\ resp' = [op |-> "start", name |-> p, err |-> "",
                             get |-> "unread",
                             http |-> onRecordStartStatus(""),
                             body |-> StartResponseExisting(p, tasks[p]),
                             task |-> NoLiteral, minutes |-> 0, times |-> NoTimes]
              \/ /\ r \notin {"created", "existed"}
                 /\ UNCHANGED <<tasks, taskObjs>>
                 /\ resp' = [op |-> "start", name |-> p, err |-> r,
                             get |-> in.get,
                             http |-> onRecordStartStatus(r),
                             body |-> NoBody, task |-> NoLiteral,
                             minutes |-> 0, times |-> NoTimes]
    /\ UNCHANGED <<pathReady, pathConfs, colorChecker, reqFormats, mutex, stopCall,
                   notReadyCall, captureStates, envFaults, gate>>

(***************************************************************************)
(* Manager.StopRecording.  It holds m.mutex from its first line to its     *)
(* return, and Task.Stop inside it waits for done.                         *)
(***************************************************************************)
\* delete(m.tasks, pathName)
DeleteKeepsEntry(reg, p) == reg

DeleteTask(reg, p) == [reg EXCEPT ![p] = 0]

\* POST /record/stop through Manager.StopRecording, up to <-t.done.
StopRecording(p) ==
    /\ UNCHANGED nonRecorder
    /\ mutex = "free"
    /\ IF tasks[p] = 0
       THEN /\ resp' = [op |-> "stop", name |-> p, err |-> "taskNotFound",
                        http |-> onRecordStopStatus("taskNotFound")]
            /\ UNCHANGED <<mutex, taskObjs, stopCall>>
       ELSE /\ resp' = NoResp
            /\ mutex' = "held"
            /\ stopCall' = [stopCall EXCEPT ![p] = "waitDone"]
            /\ taskObjs' = PutTask(p, tasks[p], TaskStop(taskObjs[p][tasks[p]]), tasks[p])
    /\ UNCHANGED <<pathReady, pathConfs, colorChecker, reqFormats, tasks, notReadyCall,
                   captureStates, envFaults, gate>>

\* A StopRecording that does not wait for done.
StopRecordingReturnEarly(p) ==
    /\ UNCHANGED nonRecorder
    /\ stopCall[p] = "waitDone"
    /\ tasks' = DeleteTask(tasks, p)
    /\ taskObjs' = [taskObjs EXCEPT ![p] = Collect(@, tasks'[p])]
    /\ mutex' = "free"
    /\ stopCall' = [stopCall EXCEPT ![p] = "idle"]
    /\ resp' = [op |-> "stop", name |-> p, err |-> "",
                http |-> onRecordStopStatus("")]
    /\ UNCHANGED <<pathReady, pathConfs, colorChecker, reqFormats, notReadyCall,
                   captureStates, envFaults, gate>>

\* <-t.done returns; the entry is deleted, the lock released, the response returned.
StopRecordingReturn(p) ==
    /\ UNCHANGED nonRecorder
    /\ stopCall[p] = "waitDone"
    /\ taskObjs[p][tasks[p]].pc = "done"
    /\ tasks' = DeleteTask(tasks, p)
    /\ taskObjs' = [taskObjs EXCEPT ![p] = Collect(@, tasks'[p])]
    /\ mutex' = "free"
    /\ stopCall' = [stopCall EXCEPT ![p] = "idle"]
    /\ resp' = [op |-> "stop", name |-> p, err |-> "",
                http |-> onRecordStopStatus("")]
    /\ UNCHANGED <<pathReady, pathConfs, colorChecker, reqFormats, notReadyCall,
                   captureStates, envFaults, gate>>

(***************************************************************************)
(* Manager.OnPathNotReady.                                                 *)
(***************************************************************************)
StopsAnyTaskOnNotReady(t) == TRUE

\* Whether OnPathNotReady stops the task registered for the path.
StopsOnNotReady(t) == t.IsAutoRecord

OnPathNotReady(p) ==
    /\ UNCHANGED nonRecorder
    /\ resp' = NoResp
    /\ notReadyCall[p] = "pending"
    /\ mutex = "free"
    /\ IF tasks[p] # 0 /\ StopsOnNotReady(taskObjs[p][tasks[p]])
       THEN /\ mutex' = "held"
            /\ notReadyCall' = [notReadyCall EXCEPT ![p] = "waitDone"]
            /\ taskObjs' = PutTask(p, tasks[p], TaskStop(taskObjs[p][tasks[p]]), tasks[p])
       ELSE /\ notReadyCall' = [notReadyCall EXCEPT ![p] = "idle"]
            /\ UNCHANGED <<mutex, taskObjs>>
    /\ UNCHANGED <<pathReady, pathConfs, colorChecker, reqFormats, tasks, stopCall,
                   captureStates, envFaults, gate>>

\* <-t.done returns; the entry is deleted and the capture state reset.
OnPathNotReadyReturn(p) ==
    /\ UNCHANGED nonRecorder
    /\ resp' = NoResp
    /\ notReadyCall[p] = "waitDone"
    /\ taskObjs[p][tasks[p]].pc = "done"
    /\ tasks' = [tasks EXCEPT ![p] = 0]
    /\ taskObjs' = [taskObjs EXCEPT ![p] = Collect(@, 0)]
    /\ captureStates' = [captureStates EXCEPT ![p] = NoCapture]
    /\ gate' = [gate EXCEPT ![p].win = << >>,
                            ![p].script = IF @ = 0 THEN 0 ELSE -1]
    /\ mutex' = "free"
    /\ notReadyCall' = [notReadyCall EXCEPT ![p] = "idle"]
    /\ UNCHANGED <<pathReady, pathConfs, colorChecker, reqFormats, stopCall, envFaults>>

(***************************************************************************)
(* The smart-recording gate and the auto-record tick.                      *)
(***************************************************************************)
\* What a tick can be given for one path: the answer of
\* deviceutil.GetInputStatusIsAvalible, the answer of ColorChecker.IsColorful,
\* and whether os.MkdirAll of Task.Start succeeds.
Obs == {0, 5, 7, 8, 9}

DevResults ==
    {[err |-> TRUE, count |-> -1], [err |-> FALSE, count |-> 0],
     [err |-> FALSE, count |-> 2]}

ColResults ==
    {[err |-> TRUE, val |-> 0]} \cup {[err |-> FALSE, val |-> v] : v \in Obs}

TickInputs == [dev : DevResults, col : ColResults, mkdirOk : BOOLEAN]

\* The observations of end-to-end scenario 2 of the specification.
Scenario == <<0, 0, 5, 8, 9, 7>>

RECURSIVE SumSeq(_)
SumSeq(q) == IF q = << >> THEN 0 ELSE Head(q) + SumSeq(Tail(q))

LastThree(q) == IF Len(q) <= 3 THEN q ELSE SubSeq(q, Len(q) - 2, Len(q))

\* parseDeviceIP: the host of the source URL, "" standing for its error.
parseDeviceIP(source) == IF source = "publisher" THEN "" ELSE source

\* threshold := pathConf.RecordMinThreshold, 1 when that is not positive.
Threshold(conf) ==
    IF conf.RecordMinThreshold <= 0 THEN 1 ELSE conf.RecordMinThreshold

AdmitsAtThreshold(cs, threshold) ==
    cs.pingCount >= 3 /\ cs.colorfulValue >= threshold

\* The admission test of the gate on the updated capture state.
Admits(cs, threshold) == cs.pingCount >= 3 /\ cs.colorfulValue > threshold

WindowOfThree(cs) == cs.pingCount >= 3

\* "Reset after too many checks": the test that ends a window of observations.
\* The window let grow by one more observation.
WindowFullAfter13(cs) == cs.pingCount > 13

WindowFull(cs) == cs.pingCount > 12

\* The gate asking the device before it looks for the color checker.
shouldStartProbingFirst(cs, conf, checker, dev, col) ==
    IF parseDeviceIP(conf.Source) = ""
    THEN [admit |-> FALSE, cs |-> cs, counted |-> FALSE, reset |-> FALSE,
          probed |-> FALSE]
    ELSE IF dev.err \/ dev.count = 0
    THEN [admit |-> FALSE, cs |-> NoCapture, counted |-> FALSE, reset |-> TRUE,
          probed |-> TRUE]
    ELSE [admit |-> ~checker, cs |-> cs, counted |-> FALSE, reset |-> FALSE,
          probed |-> TRUE]

\* Manager.shouldStartNetworkCaptureRecording: the answer (admit), the capture
\* state it leaves (cs), whether it counted an observation, whether it reset
\* the capture state and whether it asked the device for its input status.
shouldStartNetworkCaptureRecording(cs, conf, checker, dev, col) ==
    IF ~checker
    THEN [admit |-> TRUE, cs |-> cs, counted |-> FALSE, reset |-> FALSE,
          probed |-> FALSE]
    ELSE IF parseDeviceIP(conf.Source) = ""
    THEN [admit |-> FALSE, cs |-> cs, counted |-> FALSE, reset |-> FALSE,
          probed |-> FALSE]
    ELSE IF dev.err \/ dev.count = 0
    THEN [admit |-> FALSE, cs |-> NoCapture, counted |-> FALSE, reset |-> TRUE,
          probed |-> TRUE]
    ELSE IF col.err
    THEN [admit |-> FALSE, cs |-> cs, counted |-> FALSE, reset |-> FALSE,
          probed |-> TRUE]
    ELSE LET c1 == [pingCount |-> cs.pingCount + 1,
                    colorfulValue |-> cs.colorfulValue + col.val]
         IN  IF Admits(c1, Threshold(conf))
             THEN [admit |-> TRUE, cs |-> NoCapture, counted |-> TRUE, reset |-> TRUE,
                   probed |-> TRUE]
             ELSE IF WindowFull(c1)
             THEN [admit |-> FALSE, cs |-> NoCapture, counted |-> TRUE, reset |-> TRUE,
                   probed |-> TRUE]
             ELSE [admit |-> FALSE, cs |-> c1, counted |-> TRUE, reset |-> FALSE,
                   probed |-> TRUE]

\* The history of a path after a tick that consulted the gate with answer g
\* on input in, and did (started) or did not start a task.
NextHist(h, g, in, started) ==
    LET win1   == IF g.counted THEN Append(h.win, in.col.val) ELSE h.win
        script1 ==
            IF h.script >= 0 /\ h.script < Len(Scenario)
               /\ g.counted /\ in.col.val = Scenario[h.script + 1]
               /\ (g.admit => started)
            THEN h.script + 1
            ELSE -1
    IN  [win    |-> IF g.reset THEN << >> ELSE win1,
         admit  |-> g.admit,
         n      |-> IF g.admit THEN Len(win1) ELSE 0,
         sum    |-> IF g.admit THEN SumSeq(win1) ELSE 0,
         sum3   |-> IF g.admit THEN SumSeq(LastThree(win1)) ELSE 0,
         probed |-> g.probed,
         script |-> script1,
         starts |-> IF script1 = -1 THEN {}
                    ELSE IF started THEN h.starts \cup {script1}
                    ELSE h.starts]

TickPathIgnoresRecord(p, in) ==
    LET conf     == pathConfs[p]
        eligible == tasks[p] = 0 /\ pathReady[p]
        consult  == eligible /\ conf.DeviceType = "network_capture"
        g        == shouldStartNetworkCaptureRecording(captureStates[p], conf,
                        colorChecker, in.dev, in.col)
        started  == eligible /\ (consult => g.admit) /\ in.mkdirOk
    IN  [start |-> started,
         cs    |-> IF consult THEN g.cs ELSE captureStates[p],
         hist  |-> IF consult THEN NextHist(gate[p], g, in, started) ELSE gate[p]]

\* One iteration of the loop of checkAndStartAutoRecording, for path p.
TickPath(p, in) ==
    LET conf     == pathConfs[p]
        eligible == conf.Record /\ tasks[p] = 0 /\ pathReady[p]
        consult  == eligible /\ conf.DeviceType = "network_capture"
        g        == shouldStartNetworkCaptureRecording(captureStates[p], conf,
                        colorChecker, in.dev, in.col)
        started  == eligible /\ (consult => g.admit) /\ in.mkdirOk
    IN  [start |-> started,
         cs    |-> IF consult THEN g.cs ELSE captureStates[p],
         hist  |-> IF consult THEN NextHist(gate[p], g, in, started) ELSE gate[p]]

\* The inputs the iteration for path p reads: none when the path is skipped,
\* the device and the color checker only when the gate is consulted.
InputsRead(p) ==
    LET conf     == pathConfs[p]
        eligible == conf.Record /\ tasks[p] = 0 /\ pathReady[p]
        consult  == eligible /\ conf.DeviceType = "network_capture" /\ colorChecker
        quiet    == [err |-> FALSE, count |-> 2]
        blank    == [err |-> FALSE, val |-> 0]
    IN  {in \in TickInputs :
            /\ ~eligible => in.mkdirOk
            /\ ~consult => in.dev = quiet /\ in.col = blank}

\* The Task literal of the tick: mp4, automatic, the configured duration
\* (minutes) or 30 minutes when that is not positive.
AutoTaskLiteral(conf) ==
    [made |-> TRUE, Format |-> "mp4", IsAutoRecord |-> TRUE,
     Timeout |-> IF conf.AutoRecordTaskOutDuration <= 0
                 THEN 30 ELSE conf.AutoRecordTaskOutDuration]

\* Manager.checkAndStartAutoRecording, under m.mutex.
AutoRecordTick ==
    /\ UNCHANGED nonRecorder
    /\ mutex = "free"
    /\ \E in \in [Paths -> TickInputs] :
          /\ \A p \in Paths : in[p] \in InputsRead(p)
          /\ LET r == [p \in Paths |-> TickPath(p, in[p])]
             IN  /\ \A p \in Paths : r[p].start => FreeSlots(p) # {}
                 /\ tasks' = [p \in Paths |->
                                 IF r[p].start THEN MinFree(p) ELSE tasks[p]]
                 /\ taskObjs' = [p \in Paths |->
                                 IF r[p].start
                                 THEN Collect([taskObjs[p] EXCEPT
                                                  ![MinFree(p)] =
                                                      TaskStart(TRUE, "mp4")],
                                              MinFree(p))
                                 ELSE taskObjs[p]]
                 /\ captureStates' = [p \in Paths |-> r[p].cs]
                 /\ gate' = [p \in Paths |-> r[p].hist]
                 /\ resp' = IF \E p \in Paths : r[p].start
                             THEN [op |-> "tick",
                                   started |-> [p \in Paths |->
                                       IF r[p].start
                                       THEN AutoTaskLiteral(pathConfs[p])
                                       ELSE NoLiteral]]
                             ELSE NoResp
    /\ UNCHANGED <<pathReady, pathConfs, colorChecker, reqFormats, mutex, stopCall,
                   notReadyCall, envFaults>>

(***************************************************************************)
(* The Health Checker: startMonitor, ReloadPathConfs, performCheck.        *)
(***************************************************************************)
IsCapture(conf) == conf.present /\ conf.DeviceType = DeviceTypeNetworkCapture

\* Checker.startMonitor: the monitor it registers for path p, none when the
\* source gives no device host.
startMonitor(conf) ==
    IF HostOf(conf.Source) = "" THEN NoMonitor
    ELSE [on |-> TRUE, deviceIP |-> HostOf(conf.Source), failureCount |-> 0]

\* Checker.Initialize: a monitor for every network capture path.
InitializeMonitors(confs) ==
    [p \in MonPaths |-> IF IsCapture(confs[p]) THEN startMonitor(confs[p]) ELSE NoMonitor]

\* ReloadPathConfs, first loop: the monitor of a path is stopped and deleted.
StopsMonitor(new) == ~new.present \/ new.DeviceType # DeviceTypeNetworkCapture

\* ReloadPathConfs: the monitors map it leaves.
ReloadMonitors(mons, new) ==
    LET kept == [p \in MonPaths |->
                    IF mons[p].on /\ StopsMonitor(new[p]) THEN NoMonitor ELSE mons[p]]
    IN  [p \in MonPaths |->
            IF IsCapture(new[p]) /\ ~kept[p].on THEN startMonitor(new[p]) ELSE kept[p]]

ReloadPathConfs ==
    /\ \E new \in [MonPaths -> HcConfSet] :
          /\ monitors' = ReloadMonitors(monitors, new)
          /\ hcConfs' = new
    /\ hcFails' = [p \in MonPaths |-> IF monitors'[p].on THEN hcFails[p] ELSE 0]
    /\ hcLast' = NoCheck
    /\ UNCHANGED nonHealth

DeviceAvailableUnlessError(dev) == ~dev.err

\* performCheck: err == nil and availableCount != 0.
DeviceAvailable(dev) == ~dev.err /\ dev.count # 0

ExceededThreshold(fc) == fc > failureThreshold

\* performCheck: m.failureCount >= failureThreshold.
ReachedThreshold(fc) == fc >= failureThreshold

\* pathMonitor.performCheck on monitor m: the monitor it leaves, whether it
\* probed the snapshot and whether it issued the reboot.
performCheck(m, dev, snapOk, rebootOk) ==
    IF ~DeviceAvailable(dev)
    THEN [m |-> m, snapshot |-> "none", reboot |-> "none"]
    ELSE IF ~snapOk
    THEN IF ReachedThreshold(m.failureCount + 1)
         THEN [m |-> [m EXCEPT !.failureCount = 0], snapshot |-> "fail",
               reboot |-> IF rebootOk THEN "ok" ELSE "fail"]
         ELSE [m |-> [m EXCEPT !.failureCount = @ + 1], snapshot |-> "fail",
               reboot |-> "none"]
    ELSE [m |-> [m EXCEPT !.failureCount = 0], snapshot |-> "ok", reboot |-> "none"]

\* The inputs one check reads: the snapshot only on an available device, the
\* reboot answer only after a failed snapshot.
CheckInputs ==
    {in \in [dev : DevResults, snapOk : BOOLEAN, rebootOk : BOOLEAN] :
        /\ ~DeviceAvailable(in.dev) => in.snapOk
        /\ in.snapOk => in.rebootOk}

\* One tick of the monitor of path p.
MonitorTick(p) ==
    /\ monitors[p].on
    /\ \E in \in CheckInputs :
          LET r == performCheck(monitors[p], in.dev, in.snapOk, in.rebootOk)
          IN  /\ r.snapshot = "fail" => hcFails[p] < MaxFails
              /\ monitors' = [monitors EXCEPT ![p] = r.m]
              /\ hcFails' = [hcFails EXCEPT ![p] =
                                IF r.snapshot = "fail" THEN @ + 1
                                ELSE IF r.snapshot = "ok" THEN 0 ELSE @]
              /\ hcLast' = [path |-> p,
                            dev |-> IF in.dev.err THEN "err"
                                    ELSE IF in.dev.count = 0 THEN "zero" ELSE "ok",
                            snapshot |-> r.snapshot, reboot |-> r.reboot]
    /\ UNCHANGED <<hcConfs, nonHealth>>

(***************************************************************************)
(* Specifications.                                                         *)
(***************************************************************************)
\* The steps of the goroutine Task.run.
TaskRun(p, s) ==
    \/ TaskLoop(p, s)
    \/ TaskAttempt(p, s)
    \/ TaskStarted(p, s)
    \/ TaskRunning(p, s)
    \/ TaskWaitRetry(p, s)
    \/ TaskComplete(p, s)
    \/ TaskExit(p, s)

TaskSteps(p, s) ==
    \/ TaskRun(p, s)
    \/ DeadlinePasses(p, s)

Next ==
    \/ \E p \in Paths : \E s \in Slots : TaskSteps(p, s)
    \/ \E p \in Paths : SetReady(p)
    \/ \E p \in Paths : SetNotReady(p)
    \/ \E p \in Paths : StartRecording(p)
    \/ \E p \in Paths : StopRecording(p)
    \/ \E p \in Paths : StopRecordingReturn(p)
    \/ \E p \in Paths : OnPathNotReady(p)
    \/ \E p \in Paths : OnPathNotReadyReturn(p)
    \/ AutoRecordTick

Spec == Init /\ [][Next]_vars

\* The manager with a color checker installed, over network_capture paths
\* whose publisher stays ready, in an environment without stream faults.
CaptureConf(threshold) ==
    [Record |-> TRUE, DeviceType |-> "network_capture", Source |-> "dev1",
     RecordMinThreshold |-> threshold, AutoRecordTaskOutDuration |-> 0]

InitGate ==
    /\ InitRec
    /\ pathReady = [p \in Paths |-> TRUE]
    /\ pathConfs \in [Paths -> {CaptureConf(0), CaptureConf(10)}]
    /\ colorChecker = TRUE
    /\ envFaults = FALSE
    /\ reqFormats = {"mp4"}

NextGate ==
    \/ AutoRecordTick
    \/ \E p \in Paths : \E s \in Slots :
          \/ TaskLoop(p, s)
          \/ TaskAttempt(p, s)
          \/ TaskStarted(p, s)
          \/ TaskRunning(p, s)
          \/ TaskComplete(p, s)
          \/ TaskExit(p, s)
          \/ DeadlinePasses(p, s)

SpecGate == InitGate /\ [][NextGate]_vars

\* The manager over plain paths with or without record=true and with any
\* auto_record_task_out_duration, each path ready or not for the whole run,
\* in an environment without stream faults.
AutoDurations == {-1, 0, 10}

TickConf(record, duration) ==
    [Record |-> record, DeviceType |-> "", Source |-> "publisher",
     RecordMinThreshold |-> 0, AutoRecordTaskOutDuration |-> duration]

InitTick ==
    /\ InitRec
    /\ pathReady \in [Paths -> BOOLEAN]
    /\ pathConfs \in [Paths -> {TickConf(r, d) : r \in BOOLEAN, d \in AutoDurations}]
    /\ colorChecker = FALSE
    /\ envFaults = FALSE
    /\ reqFormats = VideoFormats

NextTick ==
    \/ AutoRecordTick
    \/ \E p \in Paths : StartRecording(p)
    \/ \E p \in Paths : StopRecording(p)
    \/ \E p \in Paths : StopRecordingReturn(p)
    \/ \E p \in Paths : \E s \in Slots :
          \/ TaskLoop(p, s)
          \/ TaskAttempt(p, s)
          \/ TaskStarted(p, s)
          \/ TaskRunning(p, s)
          \/ TaskComplete(p, s)
          \/ TaskExit(p, s)
          \/ DeadlinePasses(p, s)

SpecTick == InitTick /\ [][NextTick]_vars

\* Tasks that the API starts in either format and stops, on a path whose
\* publisher stays while its streams and the recorder files can fail.
InitRetry ==
    /\ InitRec
    /\ pathReady = [p \in Paths |-> TRUE]
    /\ pathConfs = [p \in Paths |-> PlainConf]
    /\ colorChecker = FALSE
    /\ envFaults = TRUE
    /\ reqFormats = VideoFormats

NextRetry ==
    \/ \E p \in Paths : StartRecording(p)
    \/ \E p \in Paths : StopRecording(p)
    \/ \E p \in Paths : StopRecordingReturn(p)
    \/ \E p \in Paths : \E s \in Slots : TaskSteps(p, s)

SpecRetry == InitRetry /\ [][NextRetry]_vars

\* A manager created without a color checker over network_capture paths whose
\* publisher stays ready.  The capture states are a package-level map, so
\* they may hold what a manager closed by a hot reload had counted.
LeftCaptureStates == {NoCapture, [pingCount |-> 2, colorfulValue |-> 5]}

InitNoChecker ==
    /\ HealthAtRest /\ CleanerAtRest /\ WsAtRest /\ CoreAtRest /\ LoopsAtRest /\ LauncherAtRest /\ RvAtRest /\ HubAtRest /\ FilesAtRest /\ Mp4AtRest
    /\ resp = NoResp
    /\ mutex = "free"
    /\ tasks = [p \in Paths |-> 0]
    /\ taskObjs = [p \in Paths |-> [s \in Slots |-> NoTaskRec]]
    /\ stopCall = [p \in Paths |-> "idle"]
    /\ notReadyCall = [p \in Paths |-> "idle"]
    /\ captureStates \in [Paths -> LeftCaptureStates]
    /\ gate = [p \in Paths |-> NoHist]
    /\ pathReady = [p \in Paths |-> TRUE]
    /\ pathConfs \in [Paths -> {CaptureConf(0), CaptureConf(10)}]
    /\ colorChecker = FALSE
    /\ envFaults = FALSE
    /\ reqFormats = {"mp4"}

SpecNoChecker == InitNoChecker /\ [][NextTick]_vars

\* A Health Checker right after Initialize, over any configuration, beside
\* an idle Record Manager.
InitHealth ==
    /\ RecorderAtRest
    /\ CleanerAtRest
    /\ WsAtRest
    /\ CoreAtRest
    /\ LoopsAtRest
    /\ LauncherAtRest
    /\ RvAtRest
    /\ HubAtRest
    /\ FilesAtRest
    /\ Mp4AtRest
    /\ hcConfs \in [MonPaths -> HcConfSet]
    /\ monitors = InitializeMonitors(hcConfs)
    /\ hcFails = [p \in MonPaths |-> 0]
    /\ hcLast = NoCheck

NextHealth == \E p \in MonPaths : MonitorTick(p)

SpecHealth == InitHealth /\ [][NextHealth]_vars

NextReload == ReloadPathConfs

SpecReload == InitHealth /\ [][NextReload]_vars

(***************************************************************************)
(* The Record Cleaner.                                                     *)
(***************************************************************************)
\* ^\d{8}$
datePattern(name) ==
    /\ Len(name) = 8
    /\ \A i \in 1..Len(name) : name[i] \in DigitByte(0)..DigitByte(9)

\* Go's < on strings: bytewise, a proper prefix is smaller.
RECURSIVE StringLess(_, _)
StringLess(a, b) ==
    IF b = << >> THEN FALSE
    ELSE IF a = << >> THEN TRUE
    ELSE IF Head(a) # Head(b) THEN Head(a) < Head(b)
    ELSE StringLess(Tail(a), Tail(b))

\* The loop over PathConfs: the least positive RecordClearDaysAgo, 0 if none.
RECURSIVE MinDaysLoop(_, _, _)
MinDaysLoop(confs, todo, acc) ==
    IF todo = {} THEN acc
    ELSE LET p == CHOOSE q \in todo : TRUE
             d == confs[p]
         IN  MinDaysLoop(confs, todo \ {p},
                         IF d > 0 /\ (acc = 0 \/ d < acc) THEN d ELSE acc)

minDaysAgo(confs) == MinDaysLoop(confs, DOMAIN confs, 0)

\* now.AddDate(0, 0, -minDaysAgo), one day too far back.
cutoffDateOffByOne(today, k) == Calendar[today - k - 1]

\* now.AddDate(0, 0, -minDaysAgo)
cutoffDate(today, k) == Calendar[today - k]

cutoffDateStr(today, k) == FormatDate(cutoffDate(today, k))

\* The scan with <= for <.
ExpiredUpToCutoff(fs, cutoff) ==
    {n \in DOMAIN fs : /\ fs[n] = "dir"
                       /\ datePattern(n)
                       /\ ~StringLess(cutoff, n)}

\* The entries the scan hands to os.RemoveAll.
Expired(fs, cutoff) ==
    {n \in DOMAIN fs : /\ fs[n] = "dir"
                       /\ datePattern(n)
                       /\ StringLess(n, cutoff)}

\* One run: what it leaves in the record root and what it did.  statOk: the
\* record root is a directory; readDirOk: os.ReadDir succeeded; failing: the
\* folders os.RemoveAll cannot remove.
doRun(fs, confs, today, statOk, readDirOk, failing) ==
    LET k == minDaysAgo(confs)
        expired == Expired(fs, cutoffDateStr(today, k))
    IN  IF ~statOk
        THEN [fs |-> fs, last |-> [NoRun EXCEPT !.ran = TRUE]]
        ELSE IF k = 0 \/ ~readDirOk
        THEN [fs |-> fs, last |-> [NoRun EXCEPT !.ran = TRUE, !.k = k]]
        ELSE [fs |-> [n \in DOMAIN fs |->
                        IF n \in expired \ failing THEN "absent" ELSE fs[n]],
              last |-> [ran |-> TRUE, k |-> k, listed |-> TRUE,
                        removed |-> expired \ failing,
                        failed |-> expired \cap failing]]

\* The failures a run can meet; those it would not notice are left out.
RunInputs ==
    LET k == minDaysAgo(clConfs)
        expired == IF k = 0 THEN {} ELSE Expired(clFs, cutoffDateStr(clToday, k))
    IN  {[statOk |-> TRUE, readDirOk |-> TRUE, failing |-> f] :
            f \in {{}} \cup {{n} : n \in expired}}
        \cup (IF k = 0 THEN {}
              ELSE {[statOk |-> TRUE, readDirOk |-> FALSE, failing |-> {}]})
        \cup {[statOk |-> FALSE, readDirOk |-> TRUE, failing |-> {}]}

\* The ticker fires (or the Cleaner starts): doRun.
CleanerRun ==
    /\ UNCHANGED nonCleaner
    /\ \E in \in RunInputs :
          LET r == doRun(clFs, clConfs, clToday, in.statOk, in.readDirOk, in.failing)
          IN  /\ clFs' = r.fs
              /\ clLast' = r.last
    /\ UNCHANGED <<clConfs, clToday, clMade>>

\* A configuration arrives on chReloadConf.
CleanerReload ==
    /\ UNCHANGED nonCleaner
    /\ \E cnf \in [ClPaths -> ClearDaysAgoSet] :
          /\ cnf # clConfs
          /\ clConfs' = cnf
    /\ clLast' = NoRun
    /\ UNCHANGED <<clFs, clToday, clMade>>

\* generateFilePath: the date folder of a recording that starts today.
dateDir(today) == FormatDate(Calendar[today])

\* Task.Start of a task of path p: the path of the file is generated and its
\* folder made; the file is written there, whatever the path's name.
RecordingMade(p) ==
    /\ UNCHANGED nonCleaner
    /\ clFs[dateDir(clToday)] # "file"
    /\ clFs' = [clFs EXCEPT ![dateDir(clToday)] = "dir"]
    /\ clMade' = [made |-> TRUE, path |-> p, dateDir |-> dateDir(clToday)]
    /\ clLast' = NoRun
    /\ UNCHANGED <<clConfs, clToday>>

\* Midnight.
DayPasses ==
    /\ UNCHANGED nonCleaner
    /\ clToday + 1 \in RecordingDays
    /\ clToday' = clToday + 1
    /\ clLast' = NoRun
    /\ UNCHANGED <<clFs, clConfs, clMade>>

\* A record root: the folders g gives, a folder "2023123x", a file "notes".
Root(g) ==
    [n \in EntryNames |->
        IF n \in DOMAIN g THEN g[n]
        ELSE IF n \notin OtherNames THEN "absent"
        ELSE IF Len(n) = 8 THEN "dir" ELSE "file"]

NamesOf(days) == {FormatDate(Calendar[i]) : i \in days}

\* Record roots in the first days of 2024: date folders across the end of
\* the year, a folder or a file named like the oldest date.
YearEndDays == DayIndex(<<2023, 12, 28>>)..DayIndex(<<2024, 1, 3>>)

YearEndRoots ==
    {Root(g) : g \in {h \in [NamesOf(YearEndDays) -> {"absent", "dir", "file"}] :
                        \A i \in YearEndDays :
                            IF i = DayIndex(<<2023, 12, 28>>)
                            THEN h[FormatDate(Calendar[i])] # "absent"
                            ELSE h[FormatDate(Calendar[i])] # "file"}}

\* Record roots on 2024-06-21 or 2024-06-22: some of the folders 20240101,
\* 20240601 and 20240715.
SummerDays ==
    {DayIndex(<<2024, 1, 1>>), DayIndex(<<2024, 6, 1>>), DayIndex(<<2024, 7, 15>>)}

SummerRoots == {Root(g) : g \in [NamesOf(SummerDays) -> {"absent", "dir"}]}

\* A Cleaner over any configuration, over a record root that holds date
\* folders, a folder "2023123x" and a file "notes".
InitCleaner ==
    /\ RecorderAtRest
    /\ HealthAtRest
    /\ WsAtRest
    /\ CoreAtRest
    /\ LoopsAtRest
    /\ LauncherAtRest
    /\ RvAtRest
    /\ HubAtRest
    /\ FilesAtRest
    /\ Mp4AtRest
    /\ clConfs \in [ClPaths -> ClearDaysAgoSet]
    /\ \/ /\ clToday \in DayIndex(<<2024, 1, 1>>)..DayIndex(<<2024, 1, 3>>)
          /\ clFs \in YearEndRoots
       \/ /\ clToday \in DayIndex(<<2024, 6, 21>>)..DayIndex(<<2024, 6, 22>>)
          /\ clFs \in SummerRoots
    /\ clLast = NoRun
    /\ clMade = NoRecording

NextCleaner == CleanerRun \/ CleanerReload

SpecCleaner == InitCleaner /\ [][NextCleaner]_vars

\* A Cleaner over any configuration and a record root without date folders,
\* on the first of the days tasks record on.
InitRetention ==
    /\ RecorderAtRest
    /\ HealthAtRest
    /\ WsAtRest
    /\ CoreAtRest
    /\ LoopsAtRest
    /\ LauncherAtRest
    /\ RvAtRest
    /\ HubAtRest
    /\ FilesAtRest
    /\ Mp4AtRest
    /\ clConfs \in [ClPaths -> ClearDaysAgoSet]
    /\ clToday = DayIndex(<<2024, 6, 21>>)
    /\ clFs = Root(<< >>)
    /\ clLast = NoRun
    /\ clMade = NoRecording

NextRetention ==
    \/ \E p \in ClPaths : RecordingMade(p)
    \/ DayPasses
    \/ CleanerRun
    \/ CleanerReload

SpecRetention == InitRetention /\ [][NextRetention]_vars

(***************************************************************************)
(* The WebSocket fan-out.                                                  *)
(***************************************************************************)
Registered_ws == {c \in WsIds : wsClients[c].reg}

\* A peer connects.  Hub: ServeWS hands the client to Run, which puts it in
\* the map under the write lock unless the map is full.  Older package:
\* addClient.  The client's writePump starts.
WsRegister(c) ==
    /\ UNCHANGED nonWs
    /\ wsBc.pc = "idle"
    /\ ~wsClients[c].reg /\ wsClients[c].pump = "exit"
    /\ IF wsImpl = "hub" /\ Cardinality(Registered_ws) >= maxClients
       THEN UNCHANGED wsClients
       ELSE wsClients' = [wsClients EXCEPT
                             ![c] = [reg |-> TRUE, send |-> << >>, pump |-> "recv", cur |-> ""]]
    /\ wsLast' = NoSend
    /\ UNCHANGED <<wsImpl, wsBc>>

\* The client leaves the map and its send channel is closed, under the write
\* lock.  Hub: Run on unregister; older package: deleteClient.
WsUnregister(c) ==
    /\ UNCHANGED nonWs
    /\ wsBc.pc = "idle"
    /\ wsClients[c].reg
    /\ wsClients' = [wsClients EXCEPT ![c].reg = FALSE]
    /\ wsLast' = NoSend
    /\ UNCHANGED <<wsImpl, wsBc>>

\* writePump receives the next message of the send channel.
PumpTake(c) ==
    /\ UNCHANGED nonWs
    /\ wsClients[c].pump = "recv"
    /\ wsClients[c].send # << >>
    /\ wsClients' = [wsClients EXCEPT ![c].pump = "write",
                                      ![c].cur = Head(wsClients[c].send),
                                      ![c].send = Tail(wsClients[c].send)]
    /\ wsLast' = NoSend
    /\ UNCHANGED <<wsImpl, wsBc>>

\* WriteJSON returns: writePump waits for the next message, or ends on a
\* write error while the client stays in the map.
PumpWritten(c) ==
    /\ UNCHANGED nonWs
    /\ wsClients[c].pump = "write"
    /\ \E ok \in BOOLEAN :
          wsClients' = [wsClients EXCEPT ![c].pump = IF ok THEN "recv" ELSE "exit",
                                          ![c].cur = ""]
    /\ wsLast' = NoSend
    /\ UNCHANGED <<wsImpl, wsBc>>

\* writePump finds the send channel closed and empty, and returns.
PumpExit(c) ==
    /\ UNCHANGED nonWs
    /\ wsClients[c].pump = "recv"
    /\ ~wsClients[c].reg
    /\ wsClients[c].send = << >>
    /\ wsClients' = [wsClients EXCEPT ![c].pump = "exit"]
    /\ wsLast' = NoSend
    /\ UNCHANGED <<wsImpl, wsBc>>

\* The send case of the select with one slot too many.
HasRoomOneMore(ch, cap) ==
    IF cap = 0 THEN ch.pump = "recv" ELSE Len(ch.send) <= cap

\* Whether `case client.send <- message` can proceed: a buffered channel
\* takes the message while it is not full, an unbuffered one only while its
\* receiver waits.
HasRoom(ch, cap) ==
    IF cap = 0 THEN ch.pump = "recv" ELSE Len(ch.send) < cap

\* select { case client.send <- message: default: }
selectSend(ch, cap, m) ==
    IF ~HasRoom(ch, cap) THEN ch
    ELSE IF cap = 0 THEN [ch EXCEPT !.pump = "write", !.cur = m]
    ELSE [ch EXCEPT !.send = Append(ch.send, m)]

\* Broadcast / PostMessage: the read lock is taken and the loop over the map
\* begins.
BroadcastBegin(m) ==
    /\ UNCHANGED nonWs
    /\ wsBc.pc = "idle"
    /\ wsBc' = [pc |-> "loop", msg |-> m, todo |-> Registered_ws]
    /\ wsLast' = NoSend
    /\ UNCHANGED <<wsImpl, wsClients>>

\* One iteration of the loop, in the order the map yields.
BroadcastStep(c) ==
    /\ UNCHANGED nonWs
    /\ wsBc.pc = "loop"
    /\ c \in wsBc.todo
    /\ LET ch == wsClients[c]
           cap == SendCap(wsImpl)
       IN  /\ wsClients' = [wsClients EXCEPT ![c] = selectSend(ch, cap, wsBc.msg)]
           /\ wsLast' = [id |-> c, msg |-> wsBc.msg, room |-> HasRoom(ch, cap),
                         outcome |-> IF HasRoom(ch, cap) THEN "sent" ELSE "dropped"]
    /\ wsBc' = [wsBc EXCEPT !.todo = wsBc.todo \ {c}]
    /\ UNCHANGED wsImpl

\* The loop is over: the read lock is released.
BroadcastEnd ==
    /\ UNCHANGED nonWs
    /\ wsBc.pc = "loop"
    /\ wsBc.todo = {}
    /\ wsBc' = BcIdle
    /\ wsLast' = NoSend
    /\ UNCHANGED <<wsImpl, wsClients>>

Broadcaster == BroadcastEnd \/ \E c \in WsIds : BroadcastStep(c)

\* Either websocketapi, nobody connected yet.
InitWs ==
    /\ RecorderAtRest
    /\ HealthAtRest
    /\ CleanerAtRest
    /\ CoreAtRest
    /\ LoopsAtRest
    /\ LauncherAtRest
    /\ RvAtRest
    /\ HubAtRest
    /\ FilesAtRest
    /\ Mp4AtRest
    /\ wsImpl \in {"hub", "legacy"}
    /\ wsClients = [c \in WsIds |-> NoClient]
    /\ wsBc = BcIdle
    /\ wsLast = NoSend

NextWs ==
    \/ \E c \in WsIds : \/ WsRegister(c)
                        \/ WsUnregister(c)
                        \/ PumpTake(c)
                        \/ PumpWritten(c)
                        \/ PumpExit(c)
                        \/ BroadcastStep(c)
    \/ \E m \in WsMsgs : BroadcastBegin(m)
    \/ BroadcastEnd

\* The goroutine that broadcasts is scheduled; nothing is assumed of the
\* subscribers.
SpecWs == InitWs /\ [][NextWs]_vars /\ WF_vars(Broadcaster)

(***************************************************************************)
(* Core.closeResources.                                                    *)
(***************************************************************************)
\* The closeX flags: all stands for newConf == nil, changed for the parts in
\* which newConf differs from the configuration in use.
closeLogger(all, changed) == all \/ "logger" \in changed

closeAuthManager(all, changed) == all \/ "auth" \in changed

closeMetrics(all, changed) ==
    \/ all \/ "metrics" \in changed
    \/ closeAuthManager(all, changed) \/ closeLogger(all, changed)

closeRecorderCleaner(all, changed) ==
    all \/ "cleaner" \in changed \/ closeLogger(all, changed)

closePathManager(all, changed) ==
    \/ all \/ closeMetrics(all, changed)
    \/ closeAuthManager(all, changed) \/ closeLogger(all, changed)

closeRTSPServer(all, changed) ==
    \/ all \/ "rtsp" \in changed \/ closeMetrics(all, changed)
    \/ closePathManager(all, changed) \/ closeLogger(all, changed)

closeRTMPServer(all, changed) ==
    \/ all \/ "rtmp" \in changed \/ closeMetrics(all, changed)
    \/ closePathManager(all, changed) \/ closeLogger(all, changed)

closeWebRTCServer(all, changed) ==
    \/ all \/ "webrtc" \in changed \/ closeMetrics(all, changed)
    \/ closePathManager(all, changed) \/ closeLogger(all, changed)

closeRecordManager(all, changed) ==
    all \/ closePathManager(all, changed) \/ closeLogger(all, changed)

closeAPI(all, changed) ==
    \/ all \/ "api" \in changed \/ closeAuthManager(all, changed)
    \/ closePathManager(all, changed) \/ closeRTSPServer(all, changed)
    \/ closeRTMPServer(all, changed) \/ closeWebRTCServer(all, changed)
    \/ closeRecordManager(all, changed) \/ closeLogger(all, changed)

closeHealthChecker(all, changed) ==
    \/ all \/ closeAPI(all, changed)
    \/ closePathManager(all, changed) \/ closeLogger(all, changed)

\* The condition of the statement that closes a resource.
Closes(r, all, changed) ==
    CASE r = "confWatcher" -> all
      [] r = "healthChecker" -> closeHealthChecker(all, changed)
      [] r = "api" -> closeAPI(all, changed)
      [] r = "webRTCServer" -> closeWebRTCServer(all, changed)
      [] r = "recordManager" -> closeRecordManager(all, changed)
      [] r \in {"rtmpsServer", "rtmpServer"} -> closeRTMPServer(all, changed) \/ all
      [] r \in {"rtspsServer", "rtspServer"} -> closeRTSPServer(all, changed) \/ all
      [] r = "pathManager" -> closePathManager(all, changed)
      [] r = "recordCleaner" -> closeRecorderCleaner(all, changed)
      [] r = "metrics" -> closeMetrics(all, changed)
      [] r = "authManager" -> closeAuthManager(all, changed)
      [] r = "externalCmdPool" -> all
      [] r = "logger" -> closeLogger(all, changed)

\* The resources that are told of the new paths, or of the new configuration,
\* instead of being closed.
Reloads(open, all, changed, calledByAPI) ==
    {r \in {"recordCleaner", "pathManager", "recordManager", "healthChecker"} :
        r \in open /\ ~Closes(r, all, changed) /\ "paths" \in changed}
    \cup {r \in {"api"} : r \in open /\ ~closeAPI(all, changed) /\ ~calledByAPI}

\* closeResources is called and computes its flags: with no new configuration
\* (Close, or a failed start) or with a new one (reloadConf).
CloseResourcesBegin ==
    /\ UNCHANGED nonCore
    /\ core.pc = 0
    /\ core.closed = << >>
    /\ \E all \in BOOLEAN : \E changed \in SUBSET ConfParts : \E byAPI \in BOOLEAN :
          /\ all => changed = {} /\ ~byAPI
          /\ core' = [core EXCEPT !.pc = 1, !.all = all, !.changed = changed,
                                  !.calledByAPI = byAPI,
                                  !.reloaded = Reloads(core.open, all, changed, byAPI)]

\* The resource the statement at pc deals with.
NextToClose(pc) == CloseOrder[pc]

\* One statement of closeResources: the resource is closed if its flag is
\* set and it exists.
CloseResourcesStep ==
    /\ UNCHANGED nonCore
    /\ core.pc \in 1..Len(CloseOrder)
    /\ LET r == NextToClose(core.pc)
       IN  IF Closes(r, core.all, core.changed) /\ r \in core.open
           THEN core' = [core EXCEPT !.pc = core.pc + 1,
                                     !.open = core.open \ {r},
                                     !.closed = Append(core.closed, r)]
           ELSE core' = [core EXCEPT !.pc = core.pc + 1]

\* reloadConf goes on with createResources: what is configured and was closed
\* is created again.
CreateResources ==
    /\ UNCHANGED nonCore
    /\ core.pc = Len(CloseOrder) + 1
    /\ ~core.all
    /\ core' = CoreRunning(core.open \cup {core.closed[i] : i \in 1..Len(core.closed)})

\* A Core that runs, with all its resources or with one of the optional ones
\* left out by the configuration.
InitCore ==
    /\ RecorderAtRest
    /\ HealthAtRest
    /\ CleanerAtRest
    /\ WsAtRest
    /\ LoopsAtRest
    /\ LauncherAtRest
    /\ RvAtRest
    /\ HubAtRest
    /\ FilesAtRest
    /\ Mp4AtRest
    /\ core \in {CoreRunning(Resources \ out) :
                    out \in {{}} \cup {{r} : r \in OptionalResources}}

NextCore == CloseResourcesBegin \/ CloseResourcesStep \/ CreateResources

SpecCore == InitCore /\ [][NextCore]_vars

(***************************************************************************)
(* The tick loops and their cancellation.                                  *)
(***************************************************************************)
Bump(n) == IF n < MaxFurther THEN n + 1 ELSE MaxFurther

\* The ticker puts a tick on its channel, which holds one; a tick that finds
\* the channel full is dropped.
TickFires(l) ==
    /\ UNCHANGED nonLoops
    /\ loops[l].pc # "exited"
    /\ ~loops[l].tick
    /\ loops' = [loops EXCEPT
                    ![l].tick = TRUE,
                    ![l].firedAfter = IF loops[l].cancelled THEN Bump(loops[l].firedAfter)
                                                           ELSE 0]

\* The select takes the ticker's case and leaves the tick on the channel.
TakeTickLeavesTick(t) ==
    [t EXCEPT !.pc = "work", !.after = IF t.cancelled THEN Bump(t.after) ELSE 0]

\* The select takes the ticker's case: the tick is received and the tick's
\* work (performCheck, doRun) begins.
TakeTick(t) ==
    [t EXCEPT !.pc = "work", !.tick = FALSE,
              !.after = IF t.cancelled THEN Bump(t.after) ELSE 0]

\* case <-ticker.C, one of the cases of the select that are ready.
LoopTick(l) ==
    /\ UNCHANGED nonLoops
    /\ loops[l].pc = "select"
    /\ loops[l].tick
    /\ loops' = [loops EXCEPT ![l] = TakeTick(loops[l])]

\* The tick's work returns: the loop selects again.
LoopWorkDone(l) ==
    /\ UNCHANGED nonLoops
    /\ loops[l].pc = "work"
    /\ loops' = [loops EXCEPT ![l].pc = "select"]

\* case <-ctx.Done(), one of the cases of the select that are ready: the loop
\* returns (wg.Done, close(done)).
LoopExit(l) ==
    /\ UNCHANGED nonLoops
    /\ loops[l].pc = "select"
    /\ loops[l].cancelled
    /\ loops' = [loops EXCEPT ![l].pc = "exited"]

\* Checker.Close, Cleaner.Close: the context is cancelled, and the caller
\* waits for the loop (wg.Wait, <-c.done).
LoopClose(l) ==
    /\ UNCHANGED nonLoops
    /\ loops[l].closer = "none"
    /\ loops' = [loops EXCEPT ![l].cancelled = TRUE,
                              ![l].closer = "waiting",
                              ![l].pendingAtCancel = loops[l].tick]

\* The loop has returned: Close returns.
LoopCloseReturn(l) ==
    /\ UNCHANGED nonLoops
    /\ loops[l].closer = "waiting"
    /\ loops[l].pc = "exited"
    /\ loops' = [loops EXCEPT ![l].closer = "returned"]

InitLoops ==
    /\ RecorderAtRest
    /\ HealthAtRest
    /\ CleanerAtRest
    /\ WsAtRest
    /\ CoreAtRest
    /\ LoopsAtRest
    /\ LauncherAtRest
    /\ RvAtRest
    /\ HubAtRest
    /\ FilesAtRest
    /\ Mp4AtRest

NextLoops ==
    \E l \in LoopIds :
        \/ TickFires(l)
        \/ LoopTick(l)
        \/ LoopWorkDone(l)
        \/ LoopExit(l)
        \/ LoopClose(l)
        \/ LoopCloseReturn(l)

\* A tick's work returns, and a select whose ctx.Done case is ready again and
\* again takes it at last: Go picks among the ready cases at random.
SpecLoops ==
    /\ InitLoops /\ [][NextLoops]_vars
    /\ \A l \in LoopIds : WF_vars(LoopWorkDone(l)) /\ SF_vars(LoopExit(l))

(***************************************************************************)
(* MP4Recorder: Close, run, and the unit callbacks onH264 / onH265, beside *)
(* the Stream that delivers the units.                                     *)
(***************************************************************************)
\* Stream, publish_unit: the publishing side delivers a unit to the reader
\* of recorder r; the fan-out is synchronous, the callback runs inside it.
StreamPublishUnit(r) ==
    /\ mp4[r].reader
    /\ mp4[r].streamLock = "free"
    /\ mp4' = [mp4 EXCEPT ![r].streamLock = "publisher", ![r].cb = "wantLock"]
    /\ UNCHANGED nonMp4

\* onH264 / onH265: r.mutex.Lock().
CallbackLock(r) ==
    /\ mp4[r].cb = "wantLock"
    /\ mp4[r].mutex = "free"
    /\ mp4' = [mp4 EXCEPT ![r].mutex = "callback", ![r].cb = "inside"]
    /\ UNCHANGED nonMp4

\* onH264 / onH265 return (muxer.Write done, deferred Unlock); the fan-out
\* of the unit ends.
CallbackReturn(r) ==
    /\ mp4[r].cb = "inside"
    /\ mp4' = [mp4 EXCEPT ![r].mutex = "free", ![r].cb = "none",
                          ![r].streamLock = "free"]
    /\ UNCHANGED nonMp4

\* Close, up to <-r.done: Lock, the initialized check, Unlock,
\* close(r.terminate).
Mp4CloseBegin(r) ==
    /\ mp4[r].close = "idle"
    /\ mp4[r].mutex = "free"
    /\ mp4' = [mp4 EXCEPT ![r].close = IF mp4[r].initialized THEN "waitDone"
                                       ELSE "returned",
                          ![r].terminate = mp4[r].initialized]
    /\ UNCHANGED nonMp4

\* MP4Recorder.run: case <-r.terminate, then the deferred close(r.done).
Mp4RunExit(r) ==
    /\ mp4[r].run = "select"
    /\ mp4[r].terminate
    /\ mp4' = [mp4 EXCEPT ![r].run = "exited"]
    /\ UNCHANGED nonMp4

\* Close: <-r.done returned, r.mutex.Lock() (held until Close returns).
Mp4CloseLock(r) ==
    /\ mp4[r].close = "waitDone"
    /\ mp4[r].run = "exited"
    /\ mp4[r].mutex = "free"
    /\ mp4' = [mp4 EXCEPT ![r].mutex = "close", ![r].close = "removing"]
    /\ UNCHANGED nonMp4

\* Stream, remove_reader: the set of readers changes only between two
\* fan-outs.
StreamCanRemoveReader(r) == mp4[r].streamLock = "free"

\* Close: r.Stream.RemoveReader(r.reader) returns, then WriteTrailer,
\* file.Close, initialized = false and the deferred Unlock.
Mp4CloseRemoveReader(r) ==
    /\ mp4[r].close = "removing"
    /\ StreamCanRemoveReader(r)
    /\ mp4' = [mp4 EXCEPT ![r].reader = FALSE, ![r].initialized = FALSE,
                          ![r].mutex = "free", ![r].close = "returned"]
    /\ UNCHANGED nonMp4

\* The steps of recorder r other than the delivery of a new unit.
Mp4Progress(r) ==
    \/ CallbackLock(r)
    \/ CallbackReturn(r)
    \/ Mp4RunExit(r)
    \/ Mp4CloseLock(r)
    \/ Mp4CloseRemoveReader(r)

InitMp4 ==
    /\ RecorderAtRest
    /\ HealthAtRest
    /\ CleanerAtRest
    /\ WsAtRest
    /\ CoreAtRest
    /\ LoopsAtRest
    /\ LauncherAtRest
    /\ RvAtRest
    /\ HubAtRest
    /\ FilesAtRest
    /\ Mp4AtRest

NextMp4 ==
    \E r \in Recs :
        \/ StreamPublishUnit(r)
        \/ Mp4CloseBegin(r)
        \/ Mp4Progress(r)

SpecMp4 == InitMp4 /\ [][NextMp4]_vars

(***************************************************************************)
(* The file a task writes.  Task.Start derives FileName from the caller's  *)
(* file name or from the clock and a uuid, and FullPath from the record    *)
(* path, the day and FileName; the recorder opens FullPath.  Names are     *)
(* sequences of characters, with an extension as one element.  The uuids   *)
(* drawn are taken to differ in their first eight characters.              *)
(***************************************************************************)
CustomFileNames == {<<>>, <<"a">>, <<"a", ".", "mp4">>, <<"b">>}

\* filepath.Ext: the suffix that begins at the last dot, empty without a dot.
filepathExt(name) ==
    LET dots == {i \in 1..Len(name) : name[i] = "."}
    IN  IF dots = {} THEN <<>>
        ELSE SubSeq(name, CHOOSE i \in dots : \A j \in dots : j <= i, Len(name))

formatExt(format) == IF format = "ts" THEN "ts" ELSE "mp4"

\* YYYYMMDD-HHMM-<8 characters of a uuid>.<ext>
generateFileName(format, now, id) ==
    <<now[1], "-", now[2], "-", id, ".", formatExt(format)>>

\* recordPath/YYYYMMDD/fileName
generateFilePath(recordPath, now, fileName) ==
    <<recordPath, "/", now[1], "/">> \o fileName

TaskFileName(custom, format, now, id) ==
    IF custom # <<>>
    THEN IF filepathExt(custom) = <<>> THEN custom \o <<".", formatExt(format)>>
         ELSE custom
    ELSE generateFileName(format, now, id)

\* StartRecording for a path: an existing task is reported, otherwise a task
\* is created, named and registered.
FilesStart(p, custom, format) ==
    LET now  == NameInstants[taskFiles.at]
        id   == taskFiles.ids + 1
        name == TaskFileName(custom, format, now, UuidPrefixes[id])
    IN  /\ taskFiles.ids < MaxIds
        /\ IF taskFiles.tasks[p].active
           THEN /\ ~taskFiles.existed
                /\ taskFiles' = [taskFiles EXCEPT !.existed = TRUE]
           ELSE taskFiles' =
                  [taskFiles EXCEPT
                     !.existed = FALSE,
                     !.ids = id,
                     !.tasks[p] = [active |-> TRUE, FileName |-> name,
                                   FullPath |-> generateFilePath("rec", now, name)]]
        /\ UNCHANGED nonFiles

\* The task of a path ends and leaves the registry.
FilesComplete(p) ==
    /\ taskFiles.tasks[p].active
    /\ taskFiles' = [taskFiles EXCEPT !.tasks[p] = NoFile]
    /\ UNCHANGED nonFiles

FilesTimePasses ==
    /\ taskFiles.at < Len(NameInstants)
    /\ taskFiles' = [taskFiles EXCEPT !.at = @ + 1]
    /\ UNCHANGED nonFiles

InitFiles ==
    /\ RecorderAtRest
    /\ HealthAtRest
    /\ CleanerAtRest
    /\ WsAtRest
    /\ CoreAtRest
    /\ LoopsAtRest
    /\ LauncherAtRest
    /\ RvAtRest
    /\ HubAtRest
    /\ Mp4AtRest
    /\ FilesAtRest

NextFiles ==
    \/ \E p \in NamePaths : \E custom \in CustomFileNames : \E format \in VideoFormats :
           FilesStart(p, custom, format)
    \/ \E p \in NamePaths : FilesComplete(p)
    \/ FilesTimePasses

SpecFiles == InitFiles /\ [][NextFiles]_vars

(***************************************************************************)
(* The Hub with its channels.  register and unregister are unbuffered: a   *)
(* send on them is one step with Run's receive.  h.mu is held by Run and   *)
(* Close for a whole step, by Broadcast from HubBroadcastBegin to          *)
(* HubBroadcastEnd.  A client's context is a child of the Hub's.           *)
(***************************************************************************)
HubInMap == {c \in HubClients : hub.clients[c].inMap}

ClientCtxDone(c) == hub.ctx = "cancelled" \/ hub.clients[c].cancelled

\* ServeWS: the connection is upgraded, the client is made and ServeWS
\* reaches `hub.register <- client`.
ServeWS(c) ==
    /\ hub.clients[c].serve = "none"
    /\ hub' = [hub EXCEPT !.clients[c].serve = "registering",
                          !.clients[c].conn = "open"]
    /\ UNCHANGED nonHub

\* Run receives from register: the client enters the map, or is turned away
\* with its connection closed when the map is full; ServeWS starts the pumps.
RunRegister(c) ==
    /\ hub.run = "select"
    /\ hub.bc.pc = "idle"
    /\ hub.clients[c].serve = "registering"
    /\ hub' = [hub EXCEPT
                 !.clients[c].serve = "served",
                 !.clients[c].inMap = Cardinality(HubInMap) < maxClients,
                 !.clients[c].conn = IF Cardinality(HubInMap) >= maxClients
                                     THEN "closed" ELSE @,
                 !.clients[c].rp = "reading",
                 !.clients[c].wp = "select"]
    /\ UNCHANGED nonHub

\* Run's unregister case without the look-up in the map.
RunUnregisterUnchecked(c) ==
    /\ hub.run = "select"
    /\ hub.bc.pc = "idle"
    /\ hub.clients[c].rp = "unregistering"
    /\ hub' = [hub EXCEPT
                 !.clients[c].inMap = FALSE,
                 !.clients[c].closes = @ + 1,
                 !.clients[c].rp = "exit",
                 !.clients[c].conn = "closed"]
    /\ UNCHANGED nonHub

\* Run receives from unregister: a client that is in the map leaves it and
\* its send channel is closed; readPump goes on to close the connection and
\* returns.
RunUnregister(c) ==
    /\ hub.run = "select"
    /\ hub.bc.pc = "idle"
    /\ hub.clients[c].rp = "unregistering"
    /\ hub' = [hub EXCEPT
                 !.clients[c].inMap = FALSE,
                 !.clients[c].closes = IF hub.clients[c].inMap THEN @ + 1 ELSE @,
                 !.clients[c].panicked = @ \/ (hub.clients[c].inMap /\ hub.clients[c].closes > 0),
                 !.clients[c].rp = "exit",
                 !.clients[c].conn = "closed"]
    /\ UNCHANGED nonHub

\* Run takes the ctx.Done case and returns.
RunExit ==
    /\ hub.run = "select"
    /\ hub.ctx = "cancelled"
    /\ hub' = [hub EXCEPT !.run = "exit"]
    /\ UNCHANGED nonHub

\* Hub.Close, h.cancel().
HubCloseCancel ==
    /\ hub.close = "idle"
    /\ hub' = [hub EXCEPT !.close = "cancelled", !.ctx = "cancelled"]
    /\ UNCHANGED nonHub

\* Hub.Close under the write lock: every client of the map is cancelled and
\* its connection closed, and the map is replaced by an empty one.
HubCloseLocked ==
    /\ hub.close = "cancelled"
    /\ hub.bc.pc = "idle"
    /\ hub' = [hub EXCEPT
                 !.close = "done",
                 !.clients = [c \in HubClients |->
                                IF hub.clients[c].inMap
                                THEN [hub.clients[c] EXCEPT !.cancelled = TRUE,
                                                            !.conn = "closed",
                                                            !.inMap = FALSE]
                                ELSE hub.clients[c]]]
    /\ UNCHANGED nonHub

\* readPump returns from its loop (context done, read error, or the peer
\* went away) and its deferred function reaches `c.hub.unregister <- c`.
ReadPumpReturn(c) ==
    /\ hub.clients[c].rp = "reading"
    /\ hub' = [hub EXCEPT !.clients[c].rp = "unregistering"]
    /\ UNCHANGED nonHub

\* writePump receives a message of the send channel and writes it.
WritePumpTake(c) ==
    /\ hub.clients[c].wp = "select"
    /\ hub.clients[c].queued > 0
    /\ hub' = [hub EXCEPT !.clients[c].queued = @ - 1]
    /\ UNCHANGED nonHub

\* writePump returns: the send channel is closed and drained, the context is
\* done, or a write on the closed connection failed.  It closes the
\* connection.
WritePumpReturn(c) ==
    /\ hub.clients[c].wp = "select"
    /\ \/ hub.clients[c].closes > 0 /\ hub.clients[c].queued = 0
       \/ ClientCtxDone(c)
       \/ hub.clients[c].conn = "closed"
    /\ hub' = [hub EXCEPT !.clients[c].wp = "exit", !.clients[c].conn = "closed"]
    /\ UNCHANGED nonHub

\* Hub.Broadcast takes the read lock and begins the loop over the map.
HubBroadcastBegin ==
    /\ hub.bc.pc = "idle"
    /\ hub' = [hub EXCEPT !.bc = [pc |-> "loop", todo |-> HubInMap]]
    /\ UNCHANGED nonHub

\* select { case client.send <- message: default: } for one client; a send
\* on a closed channel panics.
HubBroadcastStep(c) ==
    /\ hub.bc.pc = "loop"
    /\ c \in hub.bc.todo
    /\ hub' = [hub EXCEPT
                 !.bc.todo = @ \ {c},
                 !.clients[c].panicked = @ \/ hub.clients[c].closes > 0,
                 !.clients[c].queued = IF hub.clients[c].closes = 0 /\ @ < sendBufferSize
                                       THEN @ + 1 ELSE @]
    /\ UNCHANGED nonHub

\* The loop is over and the read lock released.
HubBroadcastEnd ==
    /\ hub.bc.pc = "loop"
    /\ hub.bc.todo = {}
    /\ hub' = [hub EXCEPT !.bc = HubBcIdle]
    /\ UNCHANGED nonHub

\* What readPump of a client can still do, by itself or with Run.
ReadPumpProgress(c) == ReadPumpReturn(c) \/ RunUnregister(c)

InitHub ==
    /\ RecorderAtRest
    /\ HealthAtRest
    /\ CleanerAtRest
    /\ WsAtRest
    /\ CoreAtRest
    /\ LoopsAtRest
    /\ LauncherAtRest
    /\ RvAtRest
    /\ Mp4AtRest
    /\ FilesAtRest
    /\ HubAtRest

NextHub ==
    \/ \E c \in HubClients : \/ ServeWS(c)
                             \/ RunRegister(c)
                             \/ RunUnregister(c)
                             \/ ReadPumpReturn(c)
                             \/ WritePumpTake(c)
                             \/ WritePumpReturn(c)
                             \/ HubBroadcastStep(c)
    \/ RunExit
    \/ HubCloseCancel
    \/ HubCloseLocked
    \/ HubBroadcastBegin
    \/ HubBroadcastEnd

SpecHub == InitHub /\ [][NextHub]_vars

(***************************************************************************)
(* RVideoClient.  AddEndpoint holds p.rw from its first line to its return *)
(* and sends on p.done, an unbuffered channel that WaitRVideoEndpoint      *)
(* makes, receives from once at most, and sets back to nil without taking  *)
(* the lock.                                                               *)
(***************************************************************************)
\* WaitRVideoEndpoint up to its select: done is made.  (With done set it
\* returns "in waiting process".)
WaitBegin ==
    /\ rv.waiter = "idle"
    /\ rv.done = 0
    /\ rv.waits < MaxWaits
    /\ rv' = [rv EXCEPT !.waits = @ + 1, !.done = rv.waits + 1, !.waiter = "select"]
    /\ UNCHANGED nonRv

\* The ticker case of the select.
WaitTimeout ==
    /\ rv.waiter = "select"
    /\ rv' = [rv EXCEPT !.waiter = "after"]
    /\ UNCHANGED nonRv

\* The send of an AddEndpoint meets the receive of the select.
WaitReceive(a) ==
    /\ rv.waiter = "select"
    /\ rv.adders[a].pc = "sending"
    /\ rv.adders[a].ch = rv.waits
    /\ rv' = [rv EXCEPT !.waiter = "after", !.adders[a] = [pc |-> "unlock", ch |-> 0]]
    /\ UNCHANGED nonRv

\* p.done = nil, and WaitRVideoEndpoint returns.
WaitEnd ==
    /\ rv.waiter = "after"
    /\ rv' = [rv EXCEPT !.waiter = "idle", !.done = 0]
    /\ UNCHANGED nonRv

\* AddEndpoint takes the lock and stores the endpoint.
AddLock(a) ==
    /\ rv.adders[a].pc = "idle"
    /\ rv.lock = "free"
    /\ rv' = [rv EXCEPT !.lock = a, !.endpoints = 1, !.adders[a].pc = "check"]
    /\ UNCHANGED nonRv

\* if p.done != nil
AddCheck(a) ==
    /\ rv.adders[a].pc = "check"
    /\ rv' = [rv EXCEPT !.adders[a].pc = IF rv.done # 0 THEN "eval" ELSE "unlock"]
    /\ UNCHANGED nonRv

\* p.done <- true: the channel is read from the field, and the send begins.
AddEval(a) ==
    /\ rv.adders[a].pc = "eval"
    /\ rv' = [rv EXCEPT !.adders[a] = [pc |-> "sending", ch |-> rv.done]]
    /\ UNCHANGED nonRv

\* The deferred Unlock: AddEndpoint returns.
AddUnlock(a) ==
    /\ rv.adders[a].pc = "unlock"
    /\ rv' = [rv EXCEPT !.lock = "free", !.adders[a].pc = "idle"]
    /\ UNCHANGED nonRv

\* What a call of AddEndpoint that has the lock can do next.
AddProgress(a) == AddCheck(a) \/ AddEval(a) \/ WaitReceive(a) \/ AddUnlock(a)

InitRv ==
    /\ RecorderAtRest
    /\ HealthAtRest
    /\ CleanerAtRest
    /\ WsAtRest
    /\ CoreAtRest
    /\ LoopsAtRest
    /\ LauncherAtRest
    /\ Mp4AtRest
    /\ FilesAtRest
    /\ HubAtRest
    /\ RvAtRest

NextRv ==
    \/ WaitBegin
    \/ WaitTimeout
    \/ WaitEnd
    \/ \E a \in Adders : \/ AddLock(a)
                         \/ AddCheck(a)
                         \/ AddEval(a)
                         \/ WaitReceive(a)
                         \/ AddUnlock(a)

SpecRv == InitRv /\ [][NextRv]_vars

(***************************************************************************)
(* The snapshot launcher.  Start, Stop and Restart hold p.mu from the first *)
(* line to the return; monitorProcess holds it while it reads p.cmd and    *)
(* p.stopSignal, waits for the process without it, and takes it again.     *)
(* The executable is present, so launch succeeds.                          *)
(***************************************************************************)
\* terminateProcess: the process is cancelled, signalled, waited for and
\* killed after 3 s; p.cmd = nil.
terminateProcess(l) ==
    [l EXCEPT !.exited = IF l.cmd # 0 THEN @ \cup {l.cmd} ELSE @, !.cmd = 0]

\* launch: a new process is started and kept in p.cmd.
launch(l) == [l EXCEPT !.procs = @ + 1, !.cmd = l.procs + 1]

\* if p.stopSignal != nil { close(p.stopSignal); p.stopSignal = nil }
closeStopSignal(l) ==
    IF l.stopSignal # 0
    THEN [l EXCEPT !.closed = @ \cup {l.stopSignal}, !.stopSignal = 0]
    ELSE l

\* p.stopSignal = make(chan struct{}); go p.monitorProcess()
goMonitorProcess(l) ==
    [l EXCEPT !.stopSignal = l.cmd,
              !.mon[l.cmd] = [pc |-> "spawned", cmd |-> 0, stopSignal |-> 0]]

\* Start: nothing while a stop signal exists; otherwise launch and monitor.
\* (p.cmd is nil whenever p.stopSignal is, so the ProcessState test passes.)
LauncherStart ==
    /\ launcher.stopSignal = 0
    /\ launcher.procs < MaxProcs
    /\ launcher' = goMonitorProcess(launch(terminateProcess(launcher)))
    /\ UNCHANGED nonLauncher

\* Stop: the stop signal is closed and the process terminated.  (Without a
\* stop signal there is no process, and Stop changes nothing.)
LauncherStop ==
    /\ launcher.stopSignal # 0
    /\ launcher' = terminateProcess(closeStopSignal(launcher))
    /\ UNCHANGED nonLauncher

\* Restart: as Stop, then launch and monitor.
LauncherRestart ==
    /\ launcher.procs < MaxProcs
    /\ launcher' = goMonitorProcess(launch(terminateProcess(closeStopSignal(launcher))))
    /\ UNCHANGED nonLauncher

\* The current process exits by itself.
ProcessExits ==
    /\ launcher.cmd # 0
    /\ launcher.cmd \notin launcher.exited
    /\ launcher' = [launcher EXCEPT !.exited = @ \cup {launcher.cmd}]
    /\ UNCHANGED nonLauncher

\* monitorProcess begins to run: under the lock it reads p.cmd and
\* p.stopSignal, and returns if there is no process.
monitorProcessRead(m) ==
    /\ launcher.mon[m].pc = "spawned"
    /\ launcher' = [launcher EXCEPT
                      !.mon[m] = IF launcher.cmd = 0
                                 THEN [pc |-> "done", cmd |-> 0, stopSignal |-> 0]
                                 ELSE [pc |-> "waiting", cmd |-> launcher.cmd,
                                       stopSignal |-> launcher.stopSignal]]
    /\ UNCHANGED nonLauncher

\* cmd.Wait() has returned: under the lock the monitor returns if its stop
\* signal is nil or closed, and otherwise terminates, launches and starts the
\* next monitor.
monitorProcessWake(m) ==
    LET me   == launcher.mon[m]
        over == [launcher EXCEPT !.mon[m].pc = "done"]
    IN  /\ me.pc = "waiting"
        /\ me.cmd \in launcher.exited
        /\ IF me.stopSignal = 0 \/ me.stopSignal \in launcher.closed
           THEN launcher' = over
           ELSE /\ launcher.procs < MaxProcs
                /\ launcher' = goMonitorProcess(launch(terminateProcess(
                                  [over EXCEPT !.relaunches[me.cmd] = @ + 1])))
        /\ UNCHANGED nonLauncher

\* The monitors waiting for the exit of a process.
Watching(c) == {m \in ProcIds : launcher.mon[m].pc = "waiting" /\ launcher.mon[m].cmd = c}

InitLauncher ==
    /\ RecorderAtRest
    /\ HealthAtRest
    /\ CleanerAtRest
    /\ WsAtRest
    /\ CoreAtRest
    /\ LoopsAtRest
    /\ Mp4AtRest
    /\ FilesAtRest
    /\ HubAtRest
    /\ RvAtRest
    /\ LauncherAtRest

NextLauncher ==
    \/ LauncherStart
    \/ LauncherStop
    \/ LauncherRestart
    \/ ProcessExits
    \/ \E m \in ProcIds : \/ monitorProcessRead(m)
                          \/ monitorProcessWake(m)

SpecLauncher == InitLauncher /\ [][NextLauncher]_vars

(***************************************************************************)
(* Properties.                                                             *)
(***************************************************************************)
ObjsOf(p, pcs) == {s \in Slots : taskObjs[p][s].pc \in pcs}

\* Positions of a task that is started and not done.
ActivePcs == {"loop", "attempt", "started", "running", "waitRetry", "complete", "exit"}

\* Positions of a task that has not yet returned from its completion callback.
BeforeExitPcs == ActivePcs \ {"exit"}

Registered(p) == taskObjs[p][tasks[p]]

\* C1 as stated: for every path at most one task is started and not yet done.
C1_AtMostOneActive ==
    \A p \in Paths : Cardinality(ObjsOf(p, ActivePcs)) <= 1

\* C1 amended: for every path at most one task is started and has not yet
\* returned from its completion callback; a task that completed on its own may
\* still be closing done (recorder closed, entry removed) when the next starts.
C1_AtMostOneBeforeExit ==
    \A p \in Paths : Cardinality(ObjsOf(p, BeforeExitPcs)) <= 1

\* A new task runs while its predecessor has not yet closed done.
C1_Witness ==
    \E p \in Paths : ObjsOf(p, {"exit"}) # {} /\ ObjsOf(p, {"running"}) # {}

\* C2 as stated: at every instant tasks contains N iff a task of N is not done.
C2_RegistryIffNotDone ==
    \A p \in Paths : tasks[p] # 0 <=> ObjsOf(p, ActivePcs) # {}

\* C2 amended: whenever no Manager call holds the registry lock, tasks contains
\* N iff a task of N is started and has not yet returned from its completion
\* callback, and the entry is that task.
C2_RegistryIffBeforeExit ==
    mutex = "free" =>
        \A p \in Paths : ObjsOf(p, BeforeExitPcs) = (IF tasks[p] = 0 THEN {} ELSE {tasks[p]})

\* The lock is free, the path has no entry and its last task is still exiting.
C2_Witness ==
    \E p \in Paths : mutex = "free" /\ tasks[p] = 0 /\ ObjsOf(p, {"exit"}) # {}

\* C3: a StopRecording call on a registered task always eventually returns.
\* Stated so that a finite run refutes it: while the call waits for done,
\* either it can return or the task it waits for can take a step.
C3_StopCanReturn ==
    \A p \in Paths :
        stopCall[p] = "waitDone" =>
            ENABLED (StopRecordingReturn(p) \/ TaskRun(p, tasks[p]))

\* C4: when StopRecording returns, the stopped task is done, its recorder is
\* closed and the path has no entry.
C4_StopReturnsClosed ==
    [][\A p \in Paths :
          StopRecordingReturn(p) =>
              /\ Registered(p).pc = "done"
              /\ ~Registered(p).recorder
              /\ tasks'[p] = 0
              /\ ObjsOf(p, {"done"})' = {}]_vars

\* A StopRecording call whose task has just closed done is about to return.
C4_Witness ==
    \E p \in Paths : stopCall[p] = "waitDone" /\ Registered(p).pc = "done"

\* C5: while it handles the event, OnPathNotReady waits for nothing but the
\* registry lock: it is never waiting for a task to close done.
C5_NotReadyNeverWaits ==
    \A p \in Paths : notReadyCall[p] # "waitDone"

\* C6: after a not-ready event is handled the path has no entry and no task
\* goroutine of it is left.  Stated so that a finite run refutes it: a handler
\* that stops a task can return, or that task can take a step; otherwise the
\* entry and the goroutine stay for ever.
C6_NoTaskLeak ==
    \A p \in Paths :
        notReadyCall[p] = "waitDone" =>
            ENABLED (OnPathNotReadyReturn(p) \/ TaskRun(p, tasks[p]))

\* C7: OnPathNotReady leaves an API-initiated task as it is: not stopped, still
\* registered, state and retry count unchanged.
C7_ApiTaskUntouched ==
    [][\A p \in Paths :
          (OnPathNotReady(p) /\ tasks[p] # 0 /\ ~Registered(p).IsAutoRecord) =>
              UNCHANGED <<tasks, taskObjs, mutex>>]_vars

\* The handler is about to run on a registered API task that is retrying.
C7_Witness ==
    \E p \in Paths :
        /\ notReadyCall[p] = "pending" /\ mutex = "free" /\ tasks[p] # 0
        /\ ~Registered(p).IsAutoRecord
        /\ Registered(p).pc = "waitRetry"

\* C8: an API-initiated task that is not stopped and whose path is not ready
\* does not complete before its end time.
C8_RetriesUntilEndTime ==
    \A p \in Paths : \A s \in Slots :
        LET t == taskObjs[p][s]
        IN  (t.pc = "complete" /\ ~t.IsAutoRecord /\ ~t.stopRequested /\ ~pathReady[p])
                => t.clk # "before"

C11_ExistingTaskAnswered ==
    [][\A p \in Paths :
          (tasks[p] # 0 /\ StartRecording(p)) =>
              /\ UNCHANGED <<tasks, taskObjs, mutex>>
              /\ resp'.op = "start" /\ resp'.err = ""
              /\ resp'.body.Existed
              /\ resp'.body.ID = TaskInfo(p, tasks[p]).ID]_vars

\* existed=true was answered for a path that is not ready.
C11_Witness ==
    /\ resp.op = "start"
    /\ resp.err = ""
    /\ resp.body.Existed
    /\ ~pathReady[resp.name]

\* C12: the response for an already-registered task carries the id, fileName,
\* filePath, fullPath, fileURL and taskEndTime of the response returned when
\* that task was created.
C12_SameAsCreationResponse ==
    (resp.op = "start" /\ resp.err = "" /\ resp.body.Existed
        /\ ~Registered(resp.name).IsAutoRecord) =>
        [resp.body EXCEPT !.Existed = FALSE] = Registered(resp.name).created

\* C13: with no registered task, StartRecording fails with path-not-found
\* when the Path Manager does not know the path and with not-publishing when
\* the path is not ready; on these failures and when Task.Start fails, no task
\* is registered and no task is started.
C13_FailedStartLeavesNothing ==
    [][\A p \in Paths :
          (tasks[p] = 0 /\ StartRecording(p)) =>
              /\ resp'.get = "notFound" => resp'.err = "notFound"
              /\ resp'.get = "notReady" => resp'.err = "notPublishing"
              /\ resp'.err # "" => UNCHANGED <<tasks, taskObjs>> /\ tasks'[p] = 0]_vars

\* Task.Start failed: the path has no entry and no task of it runs.
C13_Witness ==
    /\ resp.op = "start"
    /\ resp.err = "startFailed"
    /\ tasks[resp.name] = 0
    /\ ObjsOf(resp.name, BeforeExitPcs) = {}

\* C14: StopRecording on a path with no registered task returns TaskNotFound
\* and changes nothing; a StopRecording that directly follows a successful
\* StopRecording of the same path returns TaskNotFound.
C14_StopUnknownIsNotFound ==
    [][\A p \in Paths :
          /\ (tasks[p] = 0 /\ StopRecording(p)) =>
                /\ resp'.op = "stop" /\ resp'.err = "taskNotFound"
                /\ UNCHANGED <<tasks, taskObjs, mutex, stopCall>>
          /\ (resp.op = "stop" /\ resp.err = "" /\ resp.name = p /\ StopRecording(p)) =>
                resp'.op = "stop" /\ resp'.err = "taskNotFound"]_vars

\* A StopRecording has just succeeded: the next one is the second call.
C14_Witness ==
    resp.op = "stop" /\ resp.err = "" /\ mutex = "free"

\* C15: POST /record/start answers 404 for path not found, 409 for no one
\* publishing and 500 only for a failed start; POST /record/stop answers 404
\* when there is no task for the name.
C15_StatusCodes ==
    /\ resp.op = "start" =>
          /\ resp.err = "notFound" => resp.http = 404
          /\ resp.err = "notPublishing" => resp.http = 409
          /\ resp.http = 500 => resp.err = "startFailed"
    /\ resp.op = "stop" =>
          (resp.err = "taskNotFound" => resp.http = 404)

\* C16: an auto-record tick starts a task for a path only if the path has
\* record=true, no registered task and is ready at that tick; every task it
\* starts is mp4, automatic, with timeout auto_record_task_out_duration, or 30
\* minutes when that is not positive.
C16_TickStartsEligibleOnly ==
    [][AutoRecordTick =>
          \A p \in Paths :
              tasks'[p] # tasks[p] =>
                  /\ pathConfs[p].Record
                  /\ tasks[p] = 0
                  /\ pathReady[p]
                  /\ taskObjs'[p][tasks'[p]].IsAutoRecord
                  /\ resp'.op = "tick"
                  /\ resp'.started[p] =
                        [made |-> TRUE, Format |-> "mp4", IsAutoRecord |-> TRUE,
                         Timeout |-> IF pathConfs[p].AutoRecordTaskOutDuration > 0
                                     THEN pathConfs[p].AutoRecordTaskOutDuration
                                     ELSE 30]]_vars

\* A tick has just started a task with the default timeout for a path whose
\* configured duration is not positive.
C16_Witness ==
    /\ resp.op = "tick"
    /\ \E p \in Paths :
          /\ resp.started[p].made
          /\ pathConfs[p].AutoRecordTaskOutDuration < 0
          /\ resp.started[p].Timeout = 30

C18_UnavailableDeviceSkipped ==
    [][\A p \in MonPaths :
          (MonitorTick(p) /\ hcLast'.path = p /\ hcLast'.dev = "zero") =>
              /\ hcLast'.snapshot = "none"
              /\ hcLast'.reboot = "none"
              /\ monitors'[p] = monitors[p]]_vars

\* The device reported 0 inputs on a tick of a monitor that stands at 5 failures.
C18_Witness ==
    \E p \in MonPaths :
        hcLast.path = p /\ hcLast.dev = "zero" /\ monitors[p].failureCount = 5

\* C19: after Initialize and after every ReloadPathConfs(new), a monitor is
\* registered for exactly the paths of the configuration whose device_type is
\* network_capture and whose source URL yields a device host.
C19_MonitorsMatchConfiguration ==
    \A p \in MonPaths :
        monitors[p].on <=>
            (IsCapture(hcConfs[p]) /\ HostOf(hcConfs[p].Source) # "")

\* C20: after a Cleaner run that computed minDaysAgo = k > 0, listed the record
\* root and whose removals all succeeded, no directory of the record root
\* named after a day earlier than today - k remains.
C20_NoExpiredDateFolderRemains ==
    (clLast.ran /\ clLast.k > 0 /\ clLast.listed /\ clLast.failed = {})
        => \A i \in FolderDays :
              i < clToday - clLast.k => clFs[FormatDate(Calendar[i])] # "dir"

\* A run with k > 0 has just removed folders of the old year and kept one of
\* the new year.
C20_Witness ==
    /\ clLast.ran /\ clLast.k > 0 /\ clLast.listed /\ clLast.failed = {}
    /\ {FormatDate(<<2023, 12, 30>>), FormatDate(<<2023, 12, 31>>)} \subseteq clLast.removed
    /\ clFs[FormatDate(<<2024, 1, 1>>)] = "dir"
    /\ clToday - clLast.k = DayIndex(<<2024, 1, 1>>)

\* The record root that holds the folders 20240101, 20240601 and 20240715,
\* and what a run with the cutoff 20240620 makes of it.
SummerRootFull == Root([n \in NamesOf(SummerDays) |-> "dir"])

SummerRootCleaned ==
    Root([n \in NamesOf(SummerDays) |->
            IF n = FormatDate(<<2024, 7, 15>>) THEN "dir" ELSE "absent"])

SummerCutoffDay == DayIndex(<<2024, 6, 20>>)

SummerExpired == {FormatDate(<<2024, 1, 1>>), FormatDate(<<2024, 6, 1>>)}

\* C21: a Cleaner run changes an entry of the record root only by removing a
\* directory whose name is the 8 digits of a day strictly before the cutoff
\* day; the directory of the cutoff day, later ones, directories that are no
\* date folders and plain files stay.  With the folders 20240101, 20240601
\* and 20240715 and the cutoff 20240620, exactly the first two are removed.
C21_RemovesOnlyExpiredDateFolders ==
    [][(clLast'.ran /\ CleanerRun) =>
          /\ \A n \in EntryNames :
                clFs'[n] # clFs[n] =>
                    /\ clFs[n] = "dir" /\ clFs'[n] = "absent"
                    /\ Len(n) = 8
                    /\ \E i \in FolderDays :
                          n = FormatDate(Calendar[i]) /\ i < clToday - clLast'.k
          /\ (/\ clFs = SummerRootFull
              /\ clLast'.listed /\ clLast'.failed = {}
              /\ clToday - clLast'.k = SummerCutoffDay) =>
                 /\ clLast'.removed = SummerExpired
                 /\ clFs' = SummerRootCleaned]_vars

\* The run with cutoff 20240620 has removed 20240101 and 20240601 and left
\* 20240715, "2023123x" and "notes".
C21_Witness ==
    /\ clLast.listed
    /\ clToday - clLast.k = SummerCutoffDay
    /\ clLast.removed = SummerExpired
    /\ clFs = SummerRootCleaned

\* C22: a Cleaner run removes no recording made on a path whose
\* record_clear_days_ago is 0, whatever the other paths configure.
C22_ZeroRetentionKept ==
    (clMade.made /\ clConfs[clMade.path] = 0) => clMade.dateDir \notin clLast.removed

\* C23: the broadcast loop never waits for a subscriber: once begun it ends
\* whatever the subscribers do.  For each client of the map the message is put
\* on its send channel if the channel has room (a buffered one is not full, an
\* unbuffered one has its receiver waiting) and is dropped for that client
\* otherwise; no other client is touched and the loop goes on to the others.
C23_BroadcastNeverBlocks ==
    /\ [][\A c \in WsIds :
            (wsBc.pc = "loop" /\ BroadcastStep(c)) =>
                LET ch == wsClients[c]
                    cap == SendCap(wsImpl)
                IN  /\ (cap > 0 /\ Len(ch.send) < cap) =>
                          wsClients'[c] = [ch EXCEPT !.send = Append(ch.send, wsBc.msg)]
                    /\ (cap = 0 /\ ch.pump = "recv") =>
                          wsClients'[c] = [ch EXCEPT !.pump = "write", !.cur = wsBc.msg]
                    /\ (cap > 0 /\ Len(ch.send) >= cap) => wsClients'[c] = ch
                    /\ (cap = 0 /\ ch.pump # "recv") => wsClients'[c] = ch
                    /\ \A d \in WsIds \ {c} : wsClients'[d] = wsClients[d]
                    /\ wsBc'.pc = "loop" /\ wsBc'.todo = wsBc.todo \ {c}]_vars
    /\ (wsBc.pc = "loop") ~> (wsBc.pc = "idle")

\* The Hub has just dropped a message for a client whose buffer is full,
\* while the other client of the map holds that message.
C23_Witness ==
    /\ wsImpl = "hub"
    /\ wsLast.outcome = "dropped"
    /\ Len(wsClients[wsLast.id].send) = sendBufferSize
    /\ \E d \in WsIds \ {wsLast.id} :
          /\ wsClients[d].reg
          /\ d \notin wsBc.todo
          /\ wsClients[d].send # << >>
          /\ wsClients[d].send[Len(wsClients[d].send)] = wsLast.msg

\* The pairs <<a, b>> of resources of which a is to be closed before b.
ClosedBefore ==
    {<<"healthChecker", "api">>, <<"api", "webRTCServer">>,
     <<"webRTCServer", "recordManager">>,
     <<"recordManager", "rtmpsServer">>, <<"recordManager", "rtmpServer">>,
     <<"rtmpsServer", "rtspsServer">>, <<"rtmpsServer", "rtspServer">>,
     <<"rtmpServer", "rtspsServer">>, <<"rtmpServer", "rtspServer">>,
     <<"rtspsServer", "pathManager">>, <<"rtspServer", "pathManager">>,
     <<"pathManager", "recordCleaner">>,
     <<"recordCleaner", "authManager">>, <<"recordCleaner", "logger">>}

\* The position of a resource among those closed so far, 0 if it is not.
ClosedAt(r) ==
    IF \E i \in 1..Len(core.closed) : core.closed[i] = r
    THEN CHOOSE i \in 1..Len(core.closed) : core.closed[i] = r
    ELSE 0

\* C24: while the Core closes everything, whenever a resource is closed all
\* those that are to be closed before it are closed already: Health Checker,
\* API, WebRTC, Record Manager, RTMP, RTSP, Path Manager, Record Cleaner, and
\* then auth and logger.
C24_CloseOrder ==
    core.all =>
        \A ab \in ClosedBefore :
            ClosedAt(ab[2]) > 0 =>
                /\ ab[1] \notin core.open
                /\ ClosedAt(ab[1]) > 0 => ClosedAt(ab[1]) < ClosedAt(ab[2])

\* The Core has closed everything it had, all its resources.
C24_Witness ==
    /\ core.all
    /\ core.pc = Len(CloseOrder) + 1
    /\ core.open = {}
    /\ {core.closed[i] : i \in 1..Len(core.closed)} = Resources

\* C26: with no color checker installed, a tick that finds a network_capture
\* path with record=true, ready and without a registered task has the gate
\* admit it, without asking the device for its input status and without
\* changing the path's pingCount or colorfulValue.
C26_NoCheckerAdmits ==
    [][AutoRecordTick =>
          \A p \in Paths :
              (/\ ~colorChecker
               /\ pathConfs[p].DeviceType = "network_capture"
               /\ pathConfs[p].Record
               /\ tasks[p] = 0
               /\ pathReady[p]) =>
                  /\ gate'[p].admit
                  /\ ~gate'[p].probed
                  /\ captureStates'[p] = captureStates[p]]_vars

\* A tick has just started a task for a network_capture path with threshold
\* 10 although no color checker is installed and the capture state left by
\* an earlier manager is still below the threshold.
C26_Witness ==
    /\ ~colorChecker
    /\ resp.op = "tick"
    /\ \E p \in Paths :
          /\ resp.started[p].made
          /\ pathConfs[p].DeviceType = "network_capture"
          /\ pathConfs[p].RecordMinThreshold = 10
          /\ gate[p].admit
          /\ captureStates[p] = [pingCount |-> 2, colorfulValue |-> 5]

\* C27: a StartRecording call with taskOutMinutes = 0 (or absent, which
\* decodes to 0) that creates a task gives it a timeout of 30 minutes, and
\* the task's expected end time is its start time plus 30 minutes.
C27_DefaultTimeout ==
    (resp.op = "start" /\ resp.task.made /\ resp.minutes = 0) =>
        /\ resp.task.Timeout = 30
        /\ resp.times.EndTime = resp.times.StartTime + 30

\* A call with taskOutMinutes = 0 has just created a ts task at minute 45
\* of the clock: its timeout is 30 minutes and its end time minute 75.
C27_Witness ==
    /\ resp.op = "start"
    /\ resp.task.made
    /\ resp.minutes = 0
    /\ resp.task.Format = "ts"
    /\ resp.task.Timeout = 30
    /\ resp.times = [StartTime |-> 45, EndTime |-> 75]

\* C28: a task that finds its deadline reached, at the check before an
\* attempt or while running, completes: it closes the recorder, signals the
\* completion to the Manager and becomes done.  Stated so that a finite run
\* refutes it: while such a task is about to signal the completion, either
\* it can do so, or the call that holds the registry lock can return, or the
\* task that call waits for can take a step.
C28_DeadlineCompletes ==
    \A p \in Paths : \A s \in Slots :
        (taskObjs[p][s].pc = "complete" /\ AtOrAfterEnd(taskObjs[p][s])) =>
            \/ ENABLED TaskComplete(p, s)
            \/ ENABLED (\E q \in Paths :
                            \/ StopRecordingReturn(q)
                            \/ OnPathNotReadyReturn(q)
                            \/ TaskRun(q, tasks[q]))

\* C29: retryCount never exceeds maxRetries (100).  A failed attempt, or a
\* reader error while running, of a task that was not asked to stop leads to
\* the retry wait with retryCount one higher while retryCount < 100, and to
\* the call of OnTaskComplete, with no further attempt, once retryCount = 100.
C29_RetriesBounded ==
    /\ [](\A p \in Paths : \A s \in Slots : taskObjs[p][s].retryCount <= maxRetries)
    /\ [][\A p \in Paths : \A s \in Slots :
            LET t == taskObjs[p][s]
                n == taskObjs'[p][s]
                failed ==
                    \/ t.pc = "attempt" /\ TaskAttempt(p, s) /\ n.pc # "started"
                    \/ t.pc = "running" /\ TaskRunning(p, s) /\ t.clk = "before"
            IN  /\ (~t.stopRequested /\ failed) =>
                       IF t.retryCount < maxRetries
                       THEN n = [closeRecorders(t) EXCEPT !.pc = "waitRetry",
                                                          !.retryCount = @ + 1]
                       ELSE n = [closeRecorders(t) EXCEPT !.pc = "complete"]
                /\ t.pc = "complete" => n.pc \in {"complete", "exit"}
                /\ t.pc = "exit" => n.pc \in {"exit", "done", "free"}]_vars

\* A task that was not asked to stop has failed with retryCount = 100 before
\* its end time and is about to call OnTaskComplete.
C29_Witness ==
    \E p \in Paths : \E s \in Slots :
        /\ taskObjs[p][s].pc = "complete"
        /\ taskObjs[p][s].retryCount = maxRetries
        /\ taskObjs[p][s].clk = "before"
        /\ ~taskObjs[p][s].stopRequested

\* C30: a reader error on the stream of a running task, in either format,
\* closes the recorder and moves the task into the retry wait unless a stop
\* was requested.  Stated on the select of the running task: whenever the
\* stream of a running task that was not asked to stop can fail, the step
\* into the retry wait (recorder closed, retryCount one higher) is among the
\* outcomes of the select.
C30_ReaderErrorRetries ==
    \A p \in Paths : \A s \in Slots :
        LET t == taskObjs[p][s]
        IN  (/\ t.pc = "running"
             /\ envFaults
             /\ ~t.stopRequested
             /\ t.retryCount < maxRetries) =>
                [closeRecorders(t) EXCEPT !.pc = "waitRetry", !.retryCount = @ + 1]
                    \in RunningOutcomes(t, envFaults)

\* C31: a running task whose timer fires closes its recorder, then calls
\* OnTaskComplete, then returns: the step out of the select leaves the
\* recorder closed and the registry entry in place, OnTaskComplete removes
\* the entry only of a task whose recorder is closed, and a task that is
\* completing becomes done only through the return of OnTaskComplete.
C31_CloseSignalDone ==
    [][\A p \in Paths : \A s \in Slots :
          LET t == taskObjs[p][s]
              n == taskObjs'[p][s]
          IN  /\ (t.pc = "running" /\ TaskRunning(p, s) /\ n.pc = "complete") =>
                     ~n.recorder /\ tasks' = tasks
              /\ TaskComplete(p, s) => ~t.recorder /\ n.pc = "exit"
              /\ t.pc = "complete" => n.pc \in {"complete", "exit"}
              /\ (t.pc = "exit" /\ n.pc # "exit") => TaskExit(p, s)]_vars

\* The timer of a registered task has fired at its end time: the recorder is
\* closed and the task is about to call OnTaskComplete.
C31_Witness ==
    \E p \in Paths : \E s \in Slots :
        /\ taskObjs[p][s].pc = "complete"
        /\ taskObjs[p][s].clk = "at"
        /\ ~taskObjs[p][s].recorder
        /\ ~taskObjs[p][s].stopRequested
        /\ tasks[p] = s

\* C32: a Close of an MP4 recorder always completes, also while the Stream
\* is delivering a unit to it.  Stated so that a finite run refutes it: while
\* a Close is in progress, the Close, run or the unit callback of that
\* recorder can take a step.
C32_CloseCompletes ==
    \A r \in Recs :
        mp4[r].close \in {"waitDone", "removing"} => ENABLED Mp4Progress(r)

\* C33: whenever a task's call of OnTaskComplete deletes a registry entry,
\* the entry is that of the task that made the call, never that of another
\* (newer) task of the same path.
C33_CompletionDeletesOwnEntry ==
    [][\A p \in Paths : \A s \in Slots :
          (TaskComplete(p, s) /\ tasks'[p] # tasks[p]) => tasks[p] = s]_vars

\* A registered task is about to call OnTaskComplete while an older task of
\* the same path, already out of the registry, has not yet closed done.
C33_Witness ==
    \E p \in Paths : \E s, o \in Slots :
        /\ o # s
        /\ taskObjs[p][s].pc = "complete"
        /\ tasks[p] = s
        /\ mutex = "free"
        /\ taskObjs[p][o].pc = "exit"

\* C34: two paths' tasks that are active together have different FullPath
\* values, whatever file names the callers gave.
C34_DistinctFullPaths ==
    \A p, q \in NamePaths :
        (p # q /\ taskFiles.tasks[p].active /\ taskFiles.tasks[q].active)
            => taskFiles.tasks[p].FullPath # taskFiles.tasks[q].FullPath

\* C34 for generated names: two active tasks whose names came from
\* generateFileName have different FullPath values.
C34_GeneratedDistinct ==
    \A p, q \in NamePaths :
        (/\ p # q
         /\ taskFiles.tasks[p].active /\ taskFiles.tasks[q].active
         /\ Len(taskFiles.tasks[p].FileName) = 7
         /\ Len(taskFiles.tasks[q].FileName) = 7)
            => taskFiles.tasks[p].FullPath # taskFiles.tasks[q].FullPath

\* C35: once Hub.Close has returned and Run has exited, no readPump stays
\* at its send on unregister and no ServeWS at its send on register: each
\* of them that has not ended has a step it can take.  Stated so that a
\* finite run refutes it.
C35_PumpsTerminate ==
    (hub.close = "done" /\ hub.run = "exit") =>
        \A c \in HubClients :
            /\ hub.clients[c].rp \in {"reading", "unregistering"} => ENABLED ReadPumpProgress(c)
            /\ hub.clients[c].serve = "registering" => ENABLED RunRegister(c)

\* C35 for writePump: after Hub.Close has returned, a writePump that has not
\* ended can return.
C35_WritePumpCanReturn ==
    hub.close = "done" =>
        \A c \in HubClients : hub.clients[c].wp = "select" => ENABLED WritePumpReturn(c)

\* C36: a call of AddEndpoint that holds the endpoint lock can always take
\* its next step, so it returns.  Stated so that a finite run refutes it.
C36_AddEndpointReturns ==
    \A a \in Adders : rv.lock = a => ENABLED AddProgress(a)

\* C37: at most one monitor waits for the launcher's current process, and
\* the exit of one process makes at most one monitor launch the next.
C37_OneMonitorOneRelaunch ==
    /\ launcher.cmd # 0 => Cardinality(Watching(launcher.cmd)) <= 1
    /\ \A c \in ProcIds : launcher.relaunches[c] <= 1

\* The two halves of C37.
C37_OneMonitor == launcher.cmd # 0 => Cardinality(Watching(launcher.cmd)) <= 1

C37_OneRelaunch == \A c \in ProcIds : launcher.relaunches[c] <= 1

\* C38: after Initialize and after every ReloadPathConfs, each running
\* monitor probes the device host of its path's source in the configuration
\* in force.
C38_MonitorsProbeCurrentHost ==
    \A p \in MonPaths :
        monitors[p].on => monitors[p].deviceIP = HostOf(hcConfs[p].Source)

\* C39: between auto-record ticks the capture state of every path has
\* 0 <= pingCount <= 12, pingCount is the number of observations counted
\* since the last reset and colorfulValue is their sum.
C39_CaptureStateWithinWindow ==
    \A p \in Paths :
        /\ captureStates[p].pingCount \in 0..12
        /\ captureStates[p].pingCount = Len(gate[p].win)
        /\ captureStates[p].colorfulValue = SumSeq(gate[p].win)

\* Twelve observations are counted, some of them above zero, and none has
\* admitted the path.
C39_Witness ==
    \E p \in Paths :
        /\ captureStates[p].pingCount = 12
        /\ captureStates[p].colorfulValue > 0
        /\ Len(gate[p].win) = 12

\* C40: the Hub never sends on a closed send channel and never closes one
\* twice; a send channel is closed only in the step that takes its client
\* out of the clients map, a step no Broadcast is in the middle of.
C40_SendChannelDiscipline ==
    [][\A c \in HubClients :
          LET o == hub.clients[c]
              n == hub'.clients[c]
          IN  /\ n.closes <= 1
              /\ ~n.panicked
              /\ n.closes > o.closes => (o.inMap /\ ~n.inMap /\ hub.bc.pc = "idle")
              /\ n.queued > o.queued => (o.closes = 0 /\ o.inMap)]_vars

\* One client's send channel is closed after its unregistration with a
\* message still in it, while a Broadcast is sending to the other client.
C40_Witness ==
    \E c, d \in HubClients :
        /\ c # d
        /\ hub.clients[c].closes = 1 /\ ~hub.clients[c].inMap
        /\ hub.clients[c].queued > 0
        /\ hub.bc.pc = "loop" /\ hub.bc.todo = {}
        /\ hub.clients[d].inMap /\ hub.clients[d].queued > 0

====
